---- MODULE Spec2Model ----
(***************************************************************************)
(* OneBox-AI backend: the retrieval-augmented reply-suggestion pipeline    *)
(* (RAGService, VectorService) and the POST /api/suggest-replies handler.  *)
(*                                                                         *)
(* Conventions                                                             *)
(*   - a JavaScript string that the code inspects (includes, toLowerCase,  *)
(*     trim, split, replace) is a sequence of one-character strings;       *)
(*     strings that are only passed through are TLA+ strings;              *)
(*   - a JSON request body is a record whose DOMAIN holds the keys that    *)
(*     are present;                                                        *)
(*   - similarities, distances and confidences are in hundredths           *)
(*     (0.7 is 70, a cosine distance of 2 is 200);                         *)
(*   - the Date.now() suffix of a suggestion id is not modelled: an id is  *)
(*     its literal prefix.                                                 *)
(***************************************************************************)
EXTENDS Integers, Sequences, FiniteSets, TLC

(***************************************************************************)
(* String literals of the source, and the texts of the request corpus.     *)
(***************************************************************************)
Kw_thank ==
  <<"t", "h", "a", "n", "k">>

Kw_thank_you ==
  <<"t", "h", "a", "n", "k", " ", "y", "o", "u">>

Kw_confirm ==
  <<"c", "o", "n", "f", "i", "r", "m">>

Kw_interview ==
  <<"i", "n", "t", "e", "r", "v", "i", "e", "w">>

Kw_meeting ==
  <<"m", "e", "e", "t", "i", "n", "g">>

Kw_demo ==
  <<"d", "e", "m", "o">>

Kw_support ==
  <<"s", "u", "p", "p", "o", "r", "t">>

Kw_help ==
  <<"h", "e", "l", "p">>

Kw_collaboration ==
  <<"c", "o", "l", "l", "a", "b", "o", "r", "a", "t", "i", "o", "n">>

Kw_project ==
  <<"p", "r", "o", "j", "e", "c", "t">>

Kw_http ==
  <<"h", "t", "t", "p">>

Kw_schedule ==
  <<"s", "c", "h", "e", "d", "u", "l", "e">>

Ph_meeting_link ==
  <<"{", "{", "m", "e", "e", "t", "i", "n", "g", "_", "l", "i", "n", "k", "}", "}">>

Ph_product_name ==
  <<"{", "{", "p", "r", "o", "d", "u", "c", "t", "_", "n", "a", "m", "e", "}", "}">>

Ph_sender_name ==
  <<"{", "{", "s", "e", "n", "d", "e", "r", "_", "n", "a", "m", "e", "}", "}">>

DefaultMeetingLink ==
  <<"h", "t", "t", "p", "s", ":", "/", "/", "c", "a", "l", ".", "c", "o", "m", "/", "e", "x", "a",
    "m", "p", "l", "e">>

ProductName ==
  <<"O", "n", "e", "B", "o", "x", "-", "A", "I">>

There ==
  <<"t", "h", "e", "r", "e">>

GeneralInquiry ==
  <<"G", "e", "n", "e", "r", "a", "l", " ", "i", "n", "q", "u", "i", "r", "y">>

FallbackContent ==
  <<"T", "h", "a", "n", "k", " ", "y", "o", "u", " ", "f", "o", "r", " ", "y", "o", "u", "r", " ",
    "e", "m", "a", "i", "l", ".", " ", "I", " ", "w", "i", "l", "l", " ", "r", "e", "v", "i", "e",
    "w", " ", "y", "o", "u", "r", " ", "m", "e", "s", "s", "a", "g", "e", " ", "a", "n", "d", " ",
    "g", "e", "t", " ", "b", "a", "c", "k", " ", "t", "o", " ", "y", "o", "u", " ", "s", "o", "o",
    "n", ".">>

AIDefaultContent ==
  <<"T", "h", "a", "n", "k", " ", "y", "o", "u", " ", "f", "o", "r", " ", "y", "o", "u", "r", " ",
    "e", "m", "a", "i", "l", ".", " ", "I", "'", "l", "l", " ", "r", "e", "v", "i", "e", "w", " ",
    "y", "o", "u", "r", " ", "m", "e", "s", "s", "a", "g", "e", " ", "a", "n", "d", " ", "r", "e",
    "s", "p", "o", "n", "d", " ", "a", "c", "c", "o", "r", "d", "i", "n", "g", "l", "y", ".">>

QuickThanksContent ==
  <<"Y", "o", "u", "'", "r", "e", " ", "w", "e", "l", "c", "o", "m", "e", "!", " ", "F", "e", "e",
    "l", " ", "f", "r", "e", "e", " ", "t", "o", " ", "r", "e", "a", "c", "h", " ", "o", "u", "t",
    " ", "i", "f", " ", "y", "o", "u", " ", "h", "a", "v", "e", " ", "a", "n", "y", " ", "o", "t",
    "h", "e", "r", " ", "q", "u", "e", "s", "t", "i", "o", "n", "s", ".">>

QuickConfirmContent ==
  <<"C", "o", "n", "f", "i", "r", "m", "e", "d", "!", " ", "I", "'", "l", "l", " ", "m", "a", "k",
    "e", " ", "a", " ", "n", "o", "t", "e", " ", "o", "f", " ", "t", "h", "i", "s", ".", " ", "T",
    "h", "a", "n", "k", " ", "y", "o", "u", " ", "f", "o", "r", " ", "l", "e", "t", "t", "i", "n",
    "g", " ", "m", "e", " ", "k", "n", "o", "w", ".">>

TplText_job_interview ==
  <<"T", "h", "a", "n", "k", " ", "y", "o", "u", " ", "f", "o", "r", " ", "y", "o", "u", "r", " ",
    "i", "n", "t", "e", "r", "e", "s", "t", " ", "i", "n", " ", "m", "y", " ", "a", "p", "p", "l",
    "i", "c", "a", "t", "i", "o", "n", "!", " ", "I", "'", "m", " ", "e", "x", "c", "i", "t", "e",
    "d", " ", "a", "b", "o", "u", "t", " ", "t", "h", "e", " ", "o", "p", "p", "o", "r", "t", "u",
    "n", "i", "t", "y", " ", "t", "o", " ", "d", "i", "s", "c", "u", "s", "s", " ", "h", "o", "w",
    " ", "I", " ", "c", "a", "n", " ", "c", "o", "n", "t", "r", "i", "b", "u", "t", "e", " ", "t",
    "o", " ", "y", "o", "u", "r", " ", "t", "e", "a", "m", ".", " ", "Y", "o", "u", " ", "c", "a",
    "n", " ", "s", "c", "h", "e", "d", "u", "l", "e", " ", "a", " ", "c", "o", "n", "v", "e", "n",
    "i", "e", "n", "t", " ", "t", "i", "m", "e", " ", "f", "o", "r", " ", "o", "u", "r", " ", "i",
    "n", "t", "e", "r", "v", "i", "e", "w", " ", "h", "e", "r", "e", ":", " ", "h", "t", "t", "p",
    "s", ":", "/", "/", "c", "a", "l", ".", "c", "o", "m", "/", "e", "x", "a", "m", "p", "l", "e">>

TplText_collaboration ==
  <<"I", "'", "d", " ", "b", "e", " ", "h", "a", "p", "p", "y", " ", "t", "o", " ", "d", "i", "s",
    "c", "u", "s", "s", " ", "t", "h", "e", " ", "c", "o", "l", "l", "a", "b", "o", "r", "a", "t",
    "i", "o", "n", " ", "o", "p", "p", "o", "r", "t", "u", "n", "i", "t", "y", "!", " ", "P", "l",
    "e", "a", "s", "e", " ", "f", "i", "n", "d", " ", "m", "y", " ", "a", "v", "a", "i", "l", "a",
    "b", "l", "e", " ", "s", "l", "o", "t", "s", " ", "f", "o", "r", " ", "a", " ", "m", "e", "e",
    "t", "i", "n", "g", ":", " ", "h", "t", "t", "p", "s", ":", "/", "/", "c", "a", "l", ".", "c",
    "o", "m", "/", "e", "x", "a", "m", "p", "l", "e">>

TplText_sales_demo ==
  <<"T", "h", "a", "n", "k", " ", "y", "o", "u", " ", "f", "o", "r", " ", "y", "o", "u", "r", " ",
    "i", "n", "t", "e", "r", "e", "s", "t", " ", "i", "n", " ", "O", "n", "e", "B", "o", "x", "-",
    "A", "I", "!", " ", "I", "'", "d", " ", "b", "e", " ", "d", "e", "l", "i", "g", "h", "t", "e",
    "d", " ", "t", "o", " ", "s", "h", "o", "w", " ", "y", "o", "u", " ", "h", "o", "w", " ", "o",
    "u", "r", " ", "A", "I", "-", "p", "o", "w", "e", "r", "e", "d", " ", "e", "m", "a", "i", "l",
    " ", "m", "a", "n", "a", "g", "e", "m", "e", "n", "t", " ", "p", "l", "a", "t", "f", "o", "r",
    "m", " ", "c", "a", "n", " ", "s", "t", "r", "e", "a", "m", "l", "i", "n", "e", " ", "y", "o",
    "u", "r", " ", "w", "o", "r", "k", "f", "l", "o", "w", ".", " ", "Y", "o", "u", " ", "c", "a",
    "n", " ", "b", "o", "o", "k", " ", "a", " ", "d", "e", "m", "o", " ", "s", "e", "s", "s", "i",
    "o", "n", " ", "h", "e", "r", "e", ":", " ", "h", "t", "t", "p", "s", ":", "/", "/", "c", "a",
    "l", ".", "c", "o", "m", "/", "e", "x", "a", "m", "p", "l", "e">>

TplText_technical_support ==
  <<"I", "'", "d", " ", "b", "e", " ", "h", "a", "p", "p", "y", " ", "t", "o", " ", "h", "e", "l",
    "p", " ", "y", "o", "u", " ", "w", "i", "t", "h", " ", "y", "o", "u", "r", " ", "t", "e", "c",
    "h", "n", "i", "c", "a", "l", " ", "q", "u", "e", "s", "t", "i", "o", "n", " ", "a", "b", "o",
    "u", "t", " ", "O", "n", "e", "B", "o", "x", "-", "A", "I", ".", " ", "L", "e", "t", "'", "s",
    " ", "s", "c", "h", "e", "d", "u", "l", "e", " ", "a", " ", "q", "u", "i", "c", "k", " ", "c",
    "a", "l", "l", " ", "t", "o", " ", "d", "i", "s", "c", "u", "s", "s", " ", "y", "o", "u", "r",
    " ", "s", "p", "e", "c", "i", "f", "i", "c", " ", "n", "e", "e", "d", "s", ":", " ", "h", "t",
    "t", "p", "s", ":", "/", "/", "c", "a", "l", ".", "c", "o", "m", "/", "e", "x", "a", "m", "p",
    "l", "e">>

TplText_custom ==
  <<"H", "i", " ", "{", "{", "s", "e", "n", "d", "e", "r", "_", "n", "a", "m", "e", "}", "}", ",",
    " ", "t", "h", "a", "n", "k", "s", " ", "f", "o", "r", " ", "t", "r", "y", "i", "n", "g", " ",
    "{", "{", "p", "r", "o", "d", "u", "c", "t", "_", "n", "a", "m", "e", "}", "}", ".", " ", "{",
    "{", "u", "n", "k", "n", "o", "w", "n", "}", "}">>

Txt_C8_subject ==
  <<"T", "h", "a", "n", "k", " ", "y", "o", "u", " ", "f", "o", "r", " ", "t", "h", "e", " ", "u",
    "p", "d", "a", "t", "e">>

Txt_C8_body ==
  <<"T", "h", "a", "n", "k", " ", "y", "o", "u", " ", "s", "o", " ", "m", "u", "c", "h", ",", " ",
    "c", "o", "n", "f", "i", "r", "m", " ", "t", "h", "e", " ", "m", "e", "e", "t", "i", "n", "g",
    " ", "p", "l", "e", "a", "s", "e", ".">>

Txt_alice ==
  <<"a", "l", "i", "c", "e", "@", "e", "x", "a", "m", "p", "l", "e", ".", "c", "o", "m">>

Txt_bob ==
  <<"b", "o", "b", "@", "c", "o", ".", "c", "o", "m">>

Txt_nolocal ==
  <<"@", "c", "o", ".", "c", "o", "m">>

Txt_Hello ==
  <<"H", "e", "l", "l", "o">>

Txt_thanks ==
  <<"t", "h", "a", "n", "k", "s">>

Txt_Please_confirm ==
  <<"P", "l", "e", "a", "s", "e", " ", "c", "o", "n", "f", "i", "r", "m">>

Txt_ok ==
  <<"o", "k">>

Txt_help ==
  <<"h", "e", "l", "p">>

Txt_hi ==
  <<"h", "i">>

Txt_INTERVIEW ==
  <<"I", "N", "T", "E", "R", "V", "I", "E", "W">>

Txt_see_the_demo ==
  <<"s", "e", "e", " ", "t", "h", "e", " ", "d", "e", "m", "o">>

Txt_support_body ==
  <<"s", "u", "p", "p", "o", "r", "t", " ", "f", "o", "r", " ", "t", "h", "e", " ", "p", "r", "o",
    "j", "e", "c", "t">>

Txt_collaboration ==
  <<"c", "o", "l", "l", "a", "b", "o", "r", "a", "t", "i", "o", "n">>

Txt_project ==
  <<"p", "r", "o", "j", "e", "c", "t">>

Txt_empty ==
  << >>

Llm_intent ==
  <<" ", " ", "S", "c", "h", "e", "d", "u", "l", "i", "n", "g", " ", "r", "e", "q", "u", "e", "s",
    "t", ".", " ">>

Llm_http ==
  <<"S", "e", "e", " ", "h", "t", "t", "p", "s", ":", "/", "/", "c", "a", "l", ".", "c", "o", "m",
    "/", "e", "x", "a", "m", "p", "l", "e">>

Llm_schedule ==
  <<"L", "e", "t", " ", "u", "s", " ", "s", "c", "h", "e", "d", "u", "l", "e", " ", "a", " ", "c",
    "a", "l", "l">>

Llm_plain ==
  <<" ", "N", "o", "t", "e", "d", ".", "\n">>

Llm_blank ==
  <<" ", " ">>

(***************************************************************************)
(* JavaScript string operations used by the pipeline.                      *)
(***************************************************************************)
UpperCase ==
  <<"A", "B", "C", "D", "E", "F", "G", "H", "I", "J", "K", "L", "M",
    "N", "O", "P", "Q", "R", "S", "T", "U", "V", "W", "X", "Y", "Z">>

LowerCase ==
  <<"a", "b", "c", "d", "e", "f", "g", "h", "i", "j", "k", "l", "m",
    "n", "o", "p", "q", "r", "s", "t", "u", "v", "w", "x", "y", "z">>

WhiteSpace ==
  {" ", "\n", "\t"}

toLowerChar(c) ==
  IF \E j \in 1..Len(UpperCase) : UpperCase[j] = c
  THEN LowerCase[CHOOSE j \in 1..Len(UpperCase) : UpperCase[j] = c]
  ELSE c

toLowerCase(s) ==
  [i \in 1..Len(s) |-> toLowerChar(s[i])]

startsWithAt(s, sub, i) ==
  /\ i + Len(sub) - 1 <= Len(s)
  /\ \A k \in 1..Len(sub) : s[i + k - 1] = sub[k]

includes(s, sub) ==
  \E i \in 1..(Len(s) + 1) : startsWithAt(s, sub, i)

RECURSIVE trimStart(_)
trimStart(s) ==
  IF s # << >> /\ Head(s) \in WhiteSpace THEN trimStart(Tail(s)) ELSE s

RECURSIVE trimEnd(_)
trimEnd(s) ==
  IF s # << >> /\ s[Len(s)] \in WhiteSpace
  THEN trimEnd(SubSeq(s, 1, Len(s) - 1))
  ELSE s

trim(s) ==
  trimEnd(trimStart(s))

\* s.split(sep)[0] for a one-character separator: the text before its first occurrence
splitFirst(s, sep) ==
  IF \E i \in 1..Len(s) : s[i] = sep
  THEN LET first == CHOOSE i \in 1..Len(s) :
                      /\ s[i] = sep
                      /\ \A j \in 1..(i - 1) : s[j] # sep
       IN  SubSeq(s, 1, first - 1)
  ELSE s

\* the first index >= i at which pat occurs in s, 0 when there is none
nextMatch(s, pat, i) ==
  IF \E j \in i..Len(s) : startsWithAt(s, pat, j)
  THEN CHOOSE j \in i..Len(s) :
         /\ startsWithAt(s, pat, j)
         /\ \A k \in i..(j - 1) : ~startsWithAt(s, pat, k)
  ELSE 0

\* s.replace(new RegExp(pat, 'g'), value) for a non-empty pattern without
\* metacharacters and a value without replacement patterns
RECURSIVE replaceAllFrom(_, _, _, _)
replaceAllFrom(s, pat, value, i) ==
  LET j == nextMatch(s, pat, i)
  IN  IF j = 0 THEN SubSeq(s, i, Len(s))
      ELSE SubSeq(s, i, j - 1) \o value \o replaceAllFrom(s, pat, value, j + Len(pat))

replaceAll(s, pat, value) ==
  replaceAllFrom(s, pat, value, 1)

\* a || b on strings: the empty string is falsy
OrElse(s, dflt) ==
  IF s = << >> THEN dflt ELSE s

slice(s, n) ==
  SubSeq(s, 1, IF Len(s) < n THEN Len(s) ELSE n)

(***************************************************************************)
(* Bounds of the model.                                                    *)
(***************************************************************************)
\* how many request bodies of Corpus are sent
NumEmails == 10

\* how many entries of StoredTemplates an index query may return
NumTemplates == 2

\* how many entries of DistanceValues an index query may report
MaxCalls ==
  6

MaxConcurrentCalls ==
  3

MaxUuids ==
  14

MaxLimit ==
  4

MaxAddFaults ==
  2

MaxCustom ==
  1

MaxTexts ==
  2

MaxGenerateCalls ==
  4

MaxSendMailCalls ==
  3

NumDistances == 5

Min(a, b) ==
  IF a < b THEN a ELSE b

(***************************************************************************)
(* VectorService: static fallback data and the seed catalogue.             *)
(***************************************************************************)
KnowledgeText_overview ==
  "Our AI-powered email management platform OneBox-AI helps businesses organize, classify, and respond to emails intelligently using machine learning."

KnowledgeText_features ==
  "Key features: Multi-account IMAP sync, AI email classification, Elasticsearch integration, webhook notifications, modern React frontend, dark/light themes."

KnowledgeText_stack ==
  "Technical stack: Node.js, Express, TypeScript, React 18, Elasticsearch, Hugging Face AI, ChromaDB for vector search."

KnowledgeLimit == 3

TemplateLimit == 2

FallbackKnowledgeItems ==
  << [content |-> KnowledgeText_overview,
      metadata |-> [type |-> "product", tags |-> <<"AI", "email", "management">>, priority |-> 1],
      similarity |-> 80],
     [content |-> KnowledgeText_features,
      metadata |-> [type |-> "product", tags |-> <<"features", "IMAP", "AI">>, priority |-> 1],
      similarity |-> 70],
     [content |-> KnowledgeText_stack,
      metadata |-> [type |-> "product", tags |-> <<"tech stack", "Node.js", "React">>, priority |-> 2],
      similarity |-> 60] >>

\* faulty variant: the limit is ignored
getFallbackKnowledge_all(limit) ==
  FallbackKnowledgeItems

getFallbackKnowledge(limit) ==
  slice(FallbackKnowledgeItems, limit)

FallbackTemplates ==
  << [scenario |-> "Job application follow-up when interviewer shows interest",
      template |-> TplText_job_interview,
      variables |-> <<"meeting_link">>,
      category |-> "job_interview",
      similarity |-> 80],
     [scenario |-> "Product demo request from potential client",
      template |-> TplText_sales_demo,
      variables |-> <<"meeting_link", "product_name">>,
      category |-> "sales_demo",
      similarity |-> 70] >>

getFallbackReplyTemplates(limit) ==
  slice(FallbackTemplates, limit)

\* documents of the knowledge collection, as seeded, with their metadata
StoredKnowledge ==
  << [document |-> KnowledgeText_overview,
      metadata |-> [type |-> "product", tags |-> <<"AI", "email", "management", "automation">>, priority |-> 1]],
     [document |-> KnowledgeText_features,
      metadata |-> [type |-> "product", tags |-> <<"features", "IMAP", "AI", "frontend">>, priority |-> 1]],
     [document |-> KnowledgeText_stack,
      metadata |-> [type |-> "product", tags |-> <<"tech stack", "Node.js", "React", "AI">>, priority |-> 2]] >>

\* metadata of the template collection: the seeded templates, and one
\* template with placeholders that an operator of the store has added
StoredTemplates ==
  << [scenario |-> "Job application follow-up when interviewer shows interest",
      template |-> TplText_job_interview,
      variables |-> <<"meeting_link">>,
      category |-> "job_interview"],
     [scenario |-> "Welcome of a trial user",
      template |-> TplText_custom,
      variables |-> <<"sender_name", "product_name">>,
      category |-> "onboarding"],
     [scenario |-> "Meeting request response for project collaboration",
      template |-> TplText_collaboration,
      variables |-> <<"meeting_link", "project_name">>,
      category |-> "collaboration"],
     [scenario |-> "Product demo request from potential client",
      template |-> TplText_sales_demo,
      variables |-> <<"meeting_link", "product_name">>,
      category |-> "sales_demo"],
     [scenario |-> "Technical support inquiry response",
      template |-> TplText_technical_support,
      variables |-> <<"meeting_link", "issue_type">>,
      category |-> "technical_support"] >>

\* cosine distances (hundredths, 0..200) an index query may report
DistanceValues ==
  <<30, 29, 31, 200, 0, 100, 150>>

Distances ==
  {DistanceValues[i] : i \in 1..Min(NumDistances, Len(DistanceValues))}

TemplateIds ==
  1..Min(NumTemplates, Len(StoredTemplates))

\* what templatesCollection.query can resolve with: at most nResults rows,
\* nearest first
TemplateQueryResults(nResults) ==
  {rows \in UNION {[1..n -> [metadata : {StoredTemplates[i] : i \in TemplateIds},
                             distance : Distances]] :
                     n \in 0..Min(nResults, Cardinality(TemplateIds))} :
     \A i, j \in DOMAIN rows :
        i < j => /\ rows[i].distance <= rows[j].distance
                 /\ rows[i].metadata # rows[j].metadata}

KnowledgeRanking ==
  <<12, 45, 130>>

\* what knowledgeCollection.query can resolve with: the first rows of one ranking
KnowledgeQueryResults(nResults) ==
  {[i \in 1..n |-> [document |-> StoredKnowledge[i].document,
                    metadata |-> StoredKnowledge[i].metadata,
                    distance |-> KnowledgeRanking[i]]] : n \in 0..Min(nResults, Len(StoredKnowledge))}

\* searchKnowledge, connected branch: the mapping of the query rows
mapKnowledgeRows(rows) ==
  [i \in DOMAIN rows |-> [content |-> rows[i].document,
                          metadata |-> rows[i].metadata,
                          similarity |-> 100 - rows[i].distance]]

\* searchReplyTemplates, connected branch: the mapping of the query rows
mapTemplateRows(rows) ==
  [i \in DOMAIN rows |-> [scenario |-> rows[i].metadata.scenario,
                          template |-> rows[i].metadata.template,
                          variables |-> rows[i].metadata.variables,
                          category |-> rows[i].metadata.category,
                          similarity |-> 100 - rows[i].distance]]

(***************************************************************************)
(* Inputs: request bodies and the answers of the language model.           *)
(***************************************************************************)
Corpus ==
  << [subject |-> Txt_C8_subject, body |-> Txt_C8_body, from |-> Txt_alice],
     [subject |-> Txt_Hello, body |-> Txt_thanks, from |-> Txt_bob],
     [subject |-> Txt_empty, body |-> Txt_ok, from |-> Txt_bob],
     [body |-> Txt_ok, from |-> Txt_bob],
     [subject |-> Txt_Please_confirm, body |-> Txt_ok, from |-> Txt_nolocal],
     [subject |-> Txt_help, body |-> Txt_hi, from |-> Txt_bob],
     [subject |-> Txt_INTERVIEW, body |-> Txt_see_the_demo, from |-> Txt_bob],
     [subject |-> Txt_hi, body |-> Txt_support_body, from |-> Txt_bob],
     [subject |-> Txt_Please_confirm, body |-> Txt_thanks, from |-> Txt_bob],
     [subject |-> Txt_collaboration, body |-> Txt_empty, from |-> Txt_bob],
     [subject |-> Txt_hi, body |-> Txt_ok],
     [subject |-> Txt_project, body |-> Txt_ok, from |-> Txt_bob] >>

RequestBodies ==
  {Corpus[i] : i \in 1..Min(NumEmails, Len(Corpus))}

\* the bodies that are an EmailContext: subject, body and from are strings
EmailContexts ==
  {b \in RequestBodies : {"subject", "body", "from"} \subseteq DOMAIN b}

\* outcomes of openai.chat.completions.create: a completion whose first
\* choice has content (here also a blank one), one whose first choice has no
\* content, one with an empty list of choices, or a rejection
IntentCompletions ==
  { [kind |-> "content", content |-> Llm_intent],
    [kind |-> "content", content |-> Llm_blank],
    [kind |-> "nocontent", content |-> << >>],
    [kind |-> "nochoices", content |-> << >>],
    [kind |-> "error", content |-> << >>] }

NoCompletion ==
  [kind |-> "none", content |-> << >>]

\* the awaited call rejected, or response.choices[0] is undefined and reading
\* its message property throws a TypeError
completionThrows(completion) ==
  completion.kind \in {"error", "nochoices"}

ReplyCompletions ==
  { [kind |-> "content", content |-> Llm_http],
    [kind |-> "content", content |-> Llm_schedule],
    [kind |-> "content", content |-> Llm_plain],
    [kind |-> "content", content |-> Llm_blank],
    [kind |-> "nocontent", content |-> << >>],
    [kind |-> "nochoices", content |-> << >>],
    [kind |-> "error", content |-> << >>] }

\* response.choices[0].message?.content?.trim() || dflt
completionText(completion, dflt) ==
  IF completion.kind = "content" THEN OrElse(trim(completion.content), dflt) ELSE dflt

(***************************************************************************)
(* RAGService.                                                             *)
(***************************************************************************)
\* analyzeEmailIntent: the try block's value, and the catch block's
\* faulty variant: the try block's value has no default
analyzeEmailIntent_nodefault(completion) ==
  IF completionThrows(completion)
  THEN GeneralInquiry
  ELSE completionText(completion, << >>)

analyzeEmailIntent(completion) ==
  IF completionThrows(completion)
  THEN GeneralInquiry
  ELSE completionText(completion, GeneralInquiry)

\* faulty variant: only the subject is searched
categorizeEmail_subjectOnly(email) ==
  LET subject == toLowerCase(email.subject)
  IN  IF includes(subject, Kw_interview) THEN "job_interview"
      ELSE IF includes(subject, Kw_meeting) THEN "meeting"
      ELSE IF includes(subject, Kw_demo) THEN "sales_demo"
      ELSE IF includes(subject, Kw_support) THEN "technical_support"
      ELSE IF includes(subject, Kw_collaboration) THEN "collaboration"
      ELSE "general"

categorizeEmail(email) ==
  LET subject == toLowerCase(email.subject)
      body == toLowerCase(email.body)
  IN  IF includes(subject, Kw_interview) \/ includes(body, Kw_interview) THEN "job_interview"
      ELSE IF includes(subject, Kw_meeting) \/ includes(body, Kw_meeting) THEN "meeting"
      ELSE IF includes(subject, Kw_demo) \/ includes(body, Kw_demo) THEN "sales_demo"
      ELSE IF includes(subject, Kw_support) \/ includes(body, Kw_help) THEN "technical_support"
      ELSE IF includes(subject, Kw_collaboration) \/ includes(body, Kw_project) THEN "collaboration"
      ELSE "general"

TemplateThreshold == 70

\* faulty variant: no threshold, any top-ranked template is used
templateQualifies_any(templateResults) ==
  Len(templateResults) > 0

\* faulty variant: >= instead of >
templateQualifies_ge(templateResults) ==
  /\ Len(templateResults) > 0
  /\ templateResults[1].similarity >= TemplateThreshold

\* the condition of the template strategy
templateQualifies(templateResults) ==
  /\ Len(templateResults) > 0
  /\ templateResults[1].similarity > TemplateThreshold

senderName(email) ==
  OrElse(splitFirst(email.from, "@"), There)

customizeTemplate(text, email) ==
  replaceAll(replaceAll(replaceAll(text, Ph_meeting_link, DefaultMeetingLink),
                        Ph_product_name, ProductName),
             Ph_sender_name, senderName(email))

generateTemplateBasedReply(email, template, knowledgeResults) ==
  LET customizedReply == customizeTemplate(template.template, email)
  IN  [id |-> "template_",
       content |-> customizedReply,
       confidence |-> template.similarity,
       context |-> [relevantKnowledge |-> slice(knowledgeResults, 2),
                    matchedTemplate |-> <<template>>,
                    reasoning |-> <<"Matched template for", template.category,
                                    "scenario with", template.similarity, "% confidence">>],
       metadata |-> [category |-> template.category,
                     tone |-> "professional",
                     action_required |-> includes(customizedReply, Kw_http),
                     estimated_response_time |-> "immediate"]]

AIConfidence == 80

\* generateAIContextualReply when the completion call resolves
generateAIContextualReply(email, knowledgeResults, templateResults, completion) ==
  LET content == completionText(completion, AIDefaultContent)
  IN  [id |-> "ai_",
       content |-> content,
       confidence |-> AIConfidence,
       context |-> [relevantKnowledge |-> knowledgeResults,
                    matchedTemplate |-> slice(templateResults, 1),
                    reasoning |-> <<"AI-generated response using retrieved context and templates">>],
       metadata |-> [category |-> categorizeEmail(email),
                     tone |-> "professional",
                     action_required |-> includes(content, Kw_http) \/ includes(content, Kw_schedule),
                     estimated_response_time |-> "immediate"]]

QuickThanksConfidence == 90

QuickConfirmConfidence == 80

QuickThanks ==
  [id |-> "quick_",
   content |-> QuickThanksContent,
   confidence |-> QuickThanksConfidence,
   context |-> [relevantKnowledge |-> << >>,
                matchedTemplate |-> << >>,
                reasoning |-> <<"Quick response for thank you message">>],
   metadata |-> [category |-> "acknowledgment",
                 tone |-> "friendly",
                 action_required |-> FALSE,
                 estimated_response_time |-> "immediate"]]

QuickConfirm ==
  [id |-> "quick_",
   content |-> QuickConfirmContent,
   confidence |-> QuickConfirmConfidence,
   context |-> [relevantKnowledge |-> << >>,
                matchedTemplate |-> << >>,
                reasoning |-> <<"Quick response for confirmation request">>],
   metadata |-> [category |-> "confirmation",
                 tone |-> "professional",
                 action_required |-> FALSE,
                 estimated_response_time |-> "immediate"]]

\* faulty variant: the first branch does not return, both replies are produced
generateQuickResponse_both(email) ==
  LET subject == toLowerCase(email.subject)
      body == toLowerCase(email.body)
  IN  (IF includes(subject, Kw_thank) \/ includes(body, Kw_thank_you)
       THEN <<QuickThanks>> ELSE << >>)
      \o (IF includes(subject, Kw_confirm) \/ includes(body, Kw_confirm)
          THEN <<QuickConfirm>> ELSE << >>)

\* generateQuickResponse: the list of the reply it returns, empty for null
generateQuickResponse(email) ==
  LET subject == toLowerCase(email.subject)
      body == toLowerCase(email.body)
  IN  IF includes(subject, Kw_thank) \/ includes(body, Kw_thank_you) THEN <<QuickThanks>>
      ELSE IF includes(subject, Kw_confirm) \/ includes(body, Kw_confirm) THEN <<QuickConfirm>>
      ELSE << >>

FallbackConfidence == 50

\* the list the catch block of generateReplySuggestions returns
FallbackSuggestions ==
  << [id |-> "fallback",
      content |-> FallbackContent,
      confidence |-> FallbackConfidence,
      context |-> [relevantKnowledge |-> << >>,
                   matchedTemplate |-> << >>,
                   reasoning |-> <<"Fallback response due to processing error">>],
      metadata |-> [category |-> "general",
                    tone |-> "professional",
                    action_required |-> TRUE,
                    estimated_response_time |-> "24 hours"]] >>

\* a settled retrieval promise
Fulfilled(value) ==
  [state |-> "fulfilled", value |-> value]

Rejected ==
  [state |-> "rejected", value |-> << >>]

Pending ==
  [state |-> "pending", value |-> << >>]

NotStarted ==
  [state |-> "none", value |-> << >>]

\* outcomes of collection.query: rows, or a rejection
QueryError ==
  [kind |-> "error", rows |-> << >>]

KnowledgeQueryOutcomes(nResults) ==
  {[kind |-> "rows", rows |-> r] : r \in KnowledgeQueryResults(nResults)} \cup {QueryError}

TemplateQueryOutcomes(nResults) ==
  {[kind |-> "rows", rows |-> r] : r \in TemplateQueryResults(nResults)} \cup {QueryError}

searchKnowledge(connected, limit, query) ==
  IF ~connected THEN Fulfilled(getFallbackKnowledge(limit))
  ELSE IF query.kind = "error" THEN Rejected
  ELSE Fulfilled(mapKnowledgeRows(query.rows))

searchReplyTemplates(connected, limit, query) ==
  IF ~connected THEN Fulfilled(getFallbackReplyTemplates(limit))
  ELSE IF query.kind = "error" THEN Rejected
  ELSE Fulfilled(mapTemplateRows(query.rows))

\* what an async function hands to its caller
Resolved(value) ==
  [kind |-> "resolved", value |-> value]

Threw ==
  [kind |-> "rejected", value |-> << >>]

NoOutcome ==
  [kind |-> "none", value |-> << >>]

\* faulty variant: the catch block rethrows
catchSuggestions_rethrow(built) ==
  Threw

\* faulty variant: the catch block returns an empty list
catchSuggestions_empty(built) ==
  Resolved(<< >>)

\* faulty variant: the catch block appends the fallback reply to what was built
catchSuggestions_append(built) ==
  Resolved(built \o FallbackSuggestions)

\* faulty variant: the catch block returns what was built, if anything was
catchSuggestions_partial(built) ==
  IF built = << >> THEN Resolved(FallbackSuggestions) ELSE Resolved(built)

\* the catch block of generateReplySuggestions; built is the list of the
\* suggestions pushed so far
catchSuggestions(built) ==
  Resolved(FallbackSuggestions)

\* the successful return of generateReplySuggestions
returnSuggestions(built) ==
  Resolved(built)

(***************************************************************************)
(* POST /api/suggest-replies.                                              *)
(***************************************************************************)
Truthy(body, field) ==
  /\ field \in DOMAIN body
  /\ body[field] # << >>

hasRequiredFields(body) ==
  ~(~Truthy(body, "subject") \/ ~Truthy(body, "body") \/ ~Truthy(body, "from"))

NoResponse ==
  [status |-> 0]

badRequest ==
  [status |-> 400, error |-> "Missing required email fields: subject, body, from"]

\* the handler after the await of generateReplySuggestions
suggestResponse(body, result) ==
  IF result.kind = "rejected"
  THEN [status |-> 500, error |-> "Failed to generate reply suggestions"]
  ELSE [status |-> 200, success |-> TRUE, email_id |-> body.subject,
        suggestions |-> result.value]

(***************************************************************************)
(* VectorService: embeddings and rate limiting.  Times and delays are      *)
(* whole milliseconds; rateLimitDelay * 0.9 is rounded down to a whole     *)
(* millisecond.  Time is kept relative: timeSinceLastRequest is            *)
(* Date.now() - lastRequestTime, not counted beyond MaxDelay, and a timer  *)
(* is the time left until it fires.  With lastRequestTime = 0 the time     *)
(* since the last request is far above any delay, hence MaxDelay at start. *)
(***************************************************************************)
MinDelay ==
  1000

MaxDelay ==
  30000

maxRetries ==
  3

EmbeddingDimension ==
  1536

Max(a, b) ==
  IF a >= b THEN a ELSE b

\* faulty variant: the decay has no floor
decayDelay_unfloored(delay) ==
  (delay * 9) \div 10

\* this.rateLimitDelay = Math.max(1000, this.rateLimitDelay * 0.9)
decayDelay(delay) ==
  Max(MinDelay, (delay * 9) \div 10)

\* faulty variant: no ceiling on the doubled delay
backoffDelay_uncapped(delay) ==
  delay * 2

\* this.rateLimitDelay = Math.min(30000, this.rateLimitDelay * 2)
backoffDelay(delay) ==
  Min(MaxDelay, delay * 2)

\* String.prototype.charCodeAt for the characters of the texts embedded here
charCodeAt(text, i) ==
  LET c == text[i + 1]
  IN  CASE c = "a" -> 97
        [] c = "b" -> 98
        [] c = "c" -> 99

\* x radians reduced to [0, 2*pi), in thousandths of a radian
reduceAngle(x) ==
  ((x * 1000000) % 6283185) \div 1000

\* sine of y thousandths of a radian, 0 <= y <= pi, in ten-thousandths
\* (Bhaskara's rational approximation, exact at 0)
sineHalfTurn(y) ==
  LET p == y * (3142 - y)
  IN  (16 * (p \div 1000) * 10000) \div ((5 * 3142 * 3142 - 4 * p) \div 1000)

\* Math.sin(x) for an integer number x >= 0 of radians, in ten-thousandths
sin(x) ==
  LET r == reduceAngle(x)
  IN  IF r <= 3141 THEN sineHalfTurn(r) ELSE 0 - sineHalfTurn(r - 3142)

RECURSIVE sqrtBetween(_, _, _)
sqrtBetween(n, lo, hi) ==
  IF lo >= hi THEN lo
  ELSE LET mid == (lo + hi + 1) \div 2
       IN  IF mid * mid <= n THEN sqrtBetween(n, mid, hi)
                             ELSE sqrtBetween(n, lo, mid - 1)

\* Math.sqrt rounded down, for 0 <= n < 2^30
sqrt(n) ==
  sqrtBetween(n, 0, 32767)

RECURSIVE sumOfSquares(_, _)
sumOfSquares(entries, indices) ==
  IF indices = {} THEN 0
  ELSE LET k == CHOOSE j \in indices : TRUE
       IN  entries[k] * entries[k] + sumOfSquares(entries, indices \ {k})

\* An embedding is its dimension and its entries at the indices written to;
\* every other entry is 0.  Entries of the accumulated vector are millionths,
\* entries of a normalized vector ten-thousandths.
\* the loop of generateFallbackEmbedding from position i on
RECURSIVE accumulate(_, _, _)
accumulate(text, i, entries) ==
  IF i >= Len(text) THEN entries
  ELSE LET char == charCodeAt(text, i)
           index == (char + i) % EmbeddingDimension
           term == sin(char * i)
       IN  accumulate(text, i + 1,
             IF index \in DOMAIN entries
             THEN [entries EXCEPT ![index] = @ + term]
             ELSE entries @@ (index :> term))

NoEntries ==
  [k \in {} |-> 0]

\* magnitude > 0 ? embedding.map(val => val / magnitude) : embedding
normalize(entries) ==
  LET magnitude == sqrt(sumOfSquares(entries, DOMAIN entries))
  IN  IF magnitude > 0
      THEN [k \in DOMAIN entries |-> (entries[k] * 10000) \div magnitude]
      ELSE entries

generateFallbackEmbedding(text) ==
  [dim |-> EmbeddingDimension,
   source |-> "fallback",
   entries |-> normalize(accumulate(text, 0, NoEntries))]

\* response.data[0].embedding of text-embedding-ada-002; its entries are not
\* looked at
ProviderEmbedding ==
  [dim |-> EmbeddingDimension, source |-> "provider", entries |-> NoEntries]

\* the texts embedded: the empty text, a single character, and a text whose
\* first three characters write to entry 99 and whose fourth writes to entry 100
EmbedTexts ==
  { << >>, <<"a">>, <<"c", "b", "a", "a">> }

\* outcomes of openai.embeddings.create: an embedding, or an APIError with
\* its HTTP status and its code
ProviderOutcomes ==
  { [kind |-> "ok", status |-> 200, code |-> "none"],
    [kind |-> "error", status |-> 429, code |-> "rate_limit_exceeded"],
    [kind |-> "error", status |-> 429, code |-> "insufficient_quota"],
    [kind |-> "error", status |-> 403, code |-> "insufficient_quota"],
    [kind |-> "error", status |-> 401, code |-> "invalid_api_key"] }

NoProviderOutcome ==
  [kind |-> "none", status |-> 0, code |-> "none"]

(***************************************************************************)
(* VectorService: the collections and their seeding.  A collection is the  *)
(* list of the categories of its documents, in the order they were added;  *)
(* the ids uuidv4() hands out are 1, 2, ... and never repeat.              *)
(***************************************************************************)
\* the categories of productInfo and of outreachTemplates, in order
SeedKnowledgeCategories ==
  <<"product_overview", "product_features", "technical_specs">>

SeedTemplateCategories ==
  <<"job_interview", "collaboration", "sales_demo", "technical_support">>

SeedSize ==
  Len(SeedKnowledgeCategories) + Len(SeedTemplateCategories)

\* what getOrCreateCollection finds: nothing, or what an earlier run seeded
PreexistingStores ==
  { [knowledge |-> << >>, templates |-> << >>],
    [knowledge |-> SeedKnowledgeCategories, templates |-> SeedTemplateCategories] }

\* getStats, disconnected branch
DisconnectedStats ==
  [knowledgeItems |-> 0, replyTemplates |-> 0, status |-> "disconnected"]

\* getStats, connected branch
activeStats(knowledge, templates) ==
  [knowledgeItems |-> Len(knowledge), replyTemplates |-> Len(templates),
   status |-> "active"]

\* the values of limit the searches are called with
Limits ==
  0..MaxLimit

TemplateRanking ==
  <<29, 30, 31, 100, 150>>

\* what templatesCollection.query resolves with when the stored templates are
\* ranked in their order: the nResults nearest, or fewer
NearestTemplates(nResults) ==
  {[i \in 1..n |-> [metadata |-> StoredTemplates[i],
                    distance |-> TemplateRanking[i]]] :
     n \in 0..Min(nResults, Len(StoredTemplates))}

NearestTemplateOutcomes(nResults) ==
  {[kind |-> "rows", rows |-> r] : r \in NearestTemplates(nResults)} \cup {QueryError}

\* number of documents of the two collections that are not seed items
CustomCount(knowledge, templates) ==
  Cardinality({i \in DOMAIN knowledge : knowledge[i] = "custom"})
    + Cardinality({i \in DOMAIN templates : templates[i] = "custom"})

(***************************************************************************)
(* State.                                                                  *)
(***************************************************************************)
VARIABLES
  isConnected,       \* VectorService.isConnected
  pc,                \* position of the invocation of generateReplySuggestions
  caller,            \* "http" (the route handler), "direct" or "none"
  email,             \* the request body, resp. the EmailContext
  intentCompletion,  \* const response, the settled completion of analyzeEmailIntent
  intent,            \* const intent
  knowledgeSearch,   \* the promise of vectorService.searchKnowledge
  templateSearch,    \* the promise of vectorService.searchReplyTemplates
  suggestions,       \* const suggestions: SuggestedReply[]
  outcome,           \* what generateReplySuggestions handed to its caller
  response,          \* the HTTP response sent
  rateLimitDelay,    \* VectorService.rateLimitDelay
  timeSinceLastRequest, \* Date.now() - VectorService.lastRequestTime
  providerCalls,     \* number of calls of openai.embeddings.create so far
  hits,              \* number of 429 responses in a row up to now
  streakStart,       \* rateLimitDelay before the first 429 of that row
  embedCall,         \* the invocations of generateEmbeddings, by caller
  knowledgeCollection, \* the documents of the collection knowledge_base
  templatesCollection, \* the documents of the collection reply_templates
  uuids,             \* number of ids uuidv4() has handed out
  storePc,           \* position of the VectorService operation under way
  seedCtx,           \* who called the seedKnowledgeBase under way
  seedPos,           \* number of items the seedKnowledgeBase under way has added
  storeCall,         \* the last VectorService operation completed and its result
  seedLog,           \* the counts after each seedKnowledgeBase completed
  addFaults,         \* number of collection.add calls that rejected
  generateCall,      \* the invocation of CustomEmbeddingFunction.generate
  transporter,       \* EmailService.transporter
  initialized,       \* EmailService.initialized
  mailerPc,          \* position of EmailService.initializeTransporter
  mail,              \* the POST /api/send-email request under way
  sendMailCalls      \* number of calls of transporter.sendMail so far

pipelineVars ==
  <<pc, caller, email, intentCompletion, intent, knowledgeSearch,
    templateSearch, suggestions, outcome, response>>

embedVars ==
  <<rateLimitDelay, timeSinceLastRequest, providerCalls, hits, streakStart, embedCall>>

storeVars ==
  <<knowledgeCollection, templatesCollection, uuids, storePc, seedCtx, seedPos,
    storeCall, seedLog, addFaults>>

mailVars ==
  <<transporter, initialized, mailerPc, mail, sendMailCalls>>

otherVars ==
  <<generateCall, mailVars>>

auxVars ==
  <<embedVars, storeVars, otherVars>>

vars ==
  <<isConnected, pipelineVars, embedVars, storeVars, otherVars>>

\* the invocations of generateEmbeddings that can be under way together: in
\* connected mode the two searches of one request each embed the query
Callers ==
  {"c1", "c2"}

NoEmbedding ==
  [dim |-> 0, source |-> "none", entries |-> NoEntries]

NoResult ==
  [kind |-> "none", value |-> NoEmbedding]

\* an invocation of generateEmbeddings that has not started
IdleCall ==
  [pc |-> "idle", text |-> << >>, retries |-> 0, calls |-> 0, sleeps |-> 0,
   wait |-> 0,
   lastOutcome |-> NoProviderOutcome, result |-> NoResult]

EmbedInit ==
  /\ rateLimitDelay = MinDelay
  /\ timeSinceLastRequest = MaxDelay
  /\ providerCalls = 0
  /\ hits = 0
  /\ streakStart = 0
  /\ embedCall = [c \in Callers |-> IdleCall]

NoStoreCall ==
  [op |-> "none", connected |-> FALSE, limit |-> 0, result |-> NotStarted]

StoreInit ==
  /\ knowledgeCollection = << >>
  /\ templatesCollection = << >>
  /\ uuids = 0
  /\ storePc = "boot"
  /\ seedCtx = "none"
  /\ seedPos = 0
  /\ storeCall = NoStoreCall
  /\ seedLog = << >>
  /\ addFaults = 0

\* CustomEmbeddingFunction.generate has not been called
IdleGenerate ==
  [pc |-> "idle", texts |-> << >>, embeddings |-> << >>, errors |-> 0,
   result |-> [kind |-> "none", value |-> << >>]]

GenerateInit ==
  generateCall = IdleGenerate

\* no request for /api/send-email is under way
NoMail ==
  [pc |-> "idle", body |-> [none |-> TRUE], response |-> NoResponse]

\* class EmailService: transporter = null, initialized = false, and the
\* constructor is about to call initializeTransporter
MailInit ==
  /\ transporter = "null"
  /\ initialized = FALSE
  /\ mailerPc = "constructing"
  /\ mail = NoMail
  /\ sendMailCalls = 0

\* const [knowledgeResults, templateResults] = await Promise.all([...]):
\* read only after both promises have fulfilled
knowledgeResults ==
  knowledgeSearch.value

templateResults ==
  templateSearch.value

NoEmail ==
  [none |-> TRUE]

Init ==
  /\ isConnected = FALSE
  /\ pc = "boot"
  /\ caller = "none"
  /\ email = NoEmail
  /\ intentCompletion = NoCompletion
  /\ intent = << >>
  /\ knowledgeSearch = NotStarted
  /\ templateSearch = NotStarted
  /\ suggestions = << >>
  /\ outcome = NoOutcome
  /\ response = NoResponse
  /\ EmbedInit
  /\ StoreInit
  /\ GenerateInit
  /\ MailInit

\* VectorService.initialize, awaited by startApp before the server listens.
\* It leaves isConnected true when the collections were obtained and the
\* seeding that followed did not throw, false otherwise; which of the two
\* happens is decided by the store and is drawn here.
initialize ==
  /\ pc = "boot"
  /\ \E ok \in BOOLEAN : isConnected' = ok
  /\ pc' = "Idle"
  /\ UNCHANGED <<caller, email, intent, knowledgeSearch, templateSearch,
                 suggestions, outcome, response>>
  /\ UNCHANGED <<intentCompletion, auxVars>>

NoSearchInFlight ==
  /\ knowledgeSearch.state # "pending"
  /\ templateSearch.state # "pending"

\* a fresh invocation: nothing of an earlier one is visible to it
Enter(e, who) ==
  /\ caller' = who
  /\ email' = e
  /\ intentCompletion' = NoCompletion
  /\ intent' = << >>
  /\ knowledgeSearch' = NotStarted
  /\ templateSearch' = NotStarted
  /\ suggestions' = << >>
  /\ outcome' = NoOutcome
  /\ UNCHANGED isConnected

\* the route handler up to the call of generateReplySuggestions
PostSuggestReplies ==
  /\ pc = "Idle"
  /\ \E b \in RequestBodies :
       /\ Enter(b, "http")
       /\ IF hasRequiredFields(b)
          THEN /\ pc' = "Classifying"
               /\ response' = NoResponse
          ELSE /\ pc' = "Returned"
               /\ response' = badRequest
  /\ UNCHANGED auxVars

\* ragService.generateReplySuggestions called by another module
CallGenerateReplySuggestions ==
  /\ pc = "Idle"
  /\ \E e \in EmailContexts : Enter(e, "direct")
  /\ pc' = "Classifying"
  /\ response' = NoResponse
  /\ UNCHANGED auxVars

\* Step 1, analyzeEmailIntent: the awaited chat completion settles
IntentCompletionSettles ==
  /\ pc = "Classifying"
  /\ \E completion \in IntentCompletions : intentCompletion' = completion
  /\ pc' = "Classified"
  /\ UNCHANGED <<isConnected, caller, email, intent, knowledgeSearch, templateSearch,
                 suggestions, outcome, response>>
  /\ UNCHANGED auxVars

\* Step 1, the rest of analyzeEmailIntent; generateReplySuggestions resumes
\* with the intent and issues the two searches
Classify ==
  /\ pc = "Classified"
  /\ intent' = analyzeEmailIntent(intentCompletion)
  /\ intentCompletion' = NoCompletion
  /\ knowledgeSearch' = Pending
  /\ templateSearch' = Pending
  /\ pc' = "Retrieving"
  /\ UNCHANGED <<isConnected, caller, email, suggestions, outcome, response>>
  /\ UNCHANGED auxVars

SearchKnowledgeSettles ==
  /\ knowledgeSearch.state = "pending"
  /\ \E query \in KnowledgeQueryOutcomes(KnowledgeLimit) :
       knowledgeSearch' = searchKnowledge(isConnected, KnowledgeLimit, query)
  /\ UNCHANGED <<isConnected, pc, caller, email, intent, templateSearch,
                 suggestions, outcome, response>>
  /\ UNCHANGED <<intentCompletion, auxVars>>

SearchTemplatesSettles ==
  /\ templateSearch.state = "pending"
  /\ \E query \in TemplateQueryOutcomes(TemplateLimit) :
       templateSearch' = searchReplyTemplates(isConnected, TemplateLimit, query)
  /\ UNCHANGED <<isConnected, pc, caller, email, intent, knowledgeSearch,
                 suggestions, outcome, response>>
  /\ UNCHANGED <<intentCompletion, auxVars>>

\* await Promise.all([...]): rejects as soon as one search has rejected,
\* fulfils once both have fulfilled
AwaitRetrieval ==
  /\ pc = "Retrieving"
  /\ IF knowledgeSearch.state = "rejected" \/ templateSearch.state = "rejected"
     THEN /\ outcome' = catchSuggestions(suggestions)
          /\ pc' = "Fallback"
     ELSE /\ knowledgeSearch.state = "fulfilled"
          /\ templateSearch.state = "fulfilled"
          /\ pc' = "Template"
          /\ UNCHANGED outcome
  /\ UNCHANGED <<isConnected, caller, email, intent, knowledgeSearch, templateSearch,
                 suggestions, response>>
  /\ UNCHANGED <<intentCompletion, auxVars>>

\* Step 3, template strategy
TemplateStrategy ==
  /\ pc = "Template"
  /\ suggestions' =
       IF templateQualifies(templateResults)
       THEN Append(suggestions,
                   generateTemplateBasedReply(email, templateResults[1], knowledgeResults))
       ELSE suggestions
  /\ pc' = "AI"
  /\ UNCHANGED <<isConnected, caller, email, intent, knowledgeSearch, templateSearch,
                 outcome, response>>
  /\ UNCHANGED <<intentCompletion, auxVars>>

\* Step 3, AI-contextual strategy: generateAIContextualReply rethrows the
\* error of the completion call
AIStrategy ==
  /\ pc = "AI"
  /\ \E completion \in ReplyCompletions :
       IF completionThrows(completion)
       THEN /\ outcome' = catchSuggestions(suggestions)
            /\ pc' = "Fallback"
            /\ UNCHANGED suggestions
       ELSE /\ suggestions' =
                 Append(suggestions,
                        generateAIContextualReply(email, knowledgeResults,
                                                  templateResults, completion))
            /\ pc' = "Quick"
            /\ UNCHANGED outcome
  /\ UNCHANGED <<isConnected, caller, email, intent, knowledgeSearch, templateSearch,
                 response>>
  /\ UNCHANGED <<intentCompletion, auxVars>>

\* Step 3, quick-response strategy, and the return of the list
QuickStrategy ==
  /\ pc = "Quick"
  /\ suggestions' = suggestions \o generateQuickResponse(email)
  /\ outcome' = returnSuggestions(suggestions')
  /\ pc' = "Done"
  /\ UNCHANGED <<isConnected, caller, email, intent, knowledgeSearch, templateSearch,
                 response>>
  /\ UNCHANGED <<intentCompletion, auxVars>>

\* the caller resumes: the route handler sends its response
Resume ==
  /\ pc \in {"Done", "Fallback"}
  /\ response' = IF caller = "http" THEN suggestResponse(email, outcome) ELSE response
  /\ pc' = "Returned"
  /\ UNCHANGED <<isConnected, caller, email, intent, knowledgeSearch, templateSearch,
                 suggestions, outcome>>
  /\ UNCHANGED <<intentCompletion, auxVars>>

\* the invocation is over and its locals are dropped; the server waits for
\* the next request
Release ==
  /\ pc = "Returned"
  /\ NoSearchInFlight
  /\ Enter(NoEmail, "none")
  /\ pc' = "Idle"
  /\ response' = NoResponse
  /\ UNCHANGED auxVars

Next ==
  \/ initialize
  \/ PostSuggestReplies
  \/ CallGenerateReplySuggestions
  \/ IntentCompletionSettles
  \/ Classify
  \/ SearchKnowledgeSettles
  \/ SearchTemplatesSettles
  \/ AwaitRetrieval
  \/ TemplateStrategy
  \/ AIStrategy
  \/ QuickStrategy
  \/ Resume
  \/ Release

Spec ==
  Init /\ [][Next]_vars

(***************************************************************************)
(* VectorService.generateEmbeddings, one invocation per caller.            *)
(***************************************************************************)
\* generateEmbeddings(text) is called: retries = 0, the loop is entered
StartEmbedding(c, cap) ==
  /\ embedCall[c].pc = "idle"
  /\ providerCalls < cap
  /\ \E text \in EmbedTexts :
       embedCall' = [embedCall EXCEPT ![c] = [IdleCall EXCEPT !.pc = "loop", !.text = text]]
  /\ UNCHANGED <<rateLimitDelay, timeSinceLastRequest, providerCalls, hits, streakStart>>
  /\ UNCHANGED <<isConnected, pipelineVars, storeVars, otherVars>>

\* this.lastRequestTime = Date.now(), waitForRateLimit returns and
\* openai.embeddings.create is called
fire(c) ==
  /\ timeSinceLastRequest' = 0
  /\ providerCalls' = providerCalls + 1
  /\ embedCall' = [embedCall EXCEPT ![c].pc = "calling",
                                    ![c].calls = @ + 1,
                                    ![c].wait = 0]

\* waitForRateLimit up to its await: either the timer is set, or no wait is
\* needed and the provider is called in the same turn
WaitForRateLimit(c, cap) ==
  /\ embedCall[c].pc = "loop"
  /\ providerCalls < cap
  /\ IF timeSinceLastRequest < rateLimitDelay
     THEN /\ embedCall' =
               [embedCall EXCEPT ![c].pc = "throttled",
                                 ![c].wait = rateLimitDelay - timeSinceLastRequest]
          /\ UNCHANGED <<timeSinceLastRequest, providerCalls>>
     ELSE fire(c)
  /\ UNCHANGED <<rateLimitDelay, hits, streakStart>>
  /\ UNCHANGED <<isConnected, pipelineVars, storeVars, otherVars>>

\* the timer of waitForRateLimit fires
RateLimitWaitOver(c) ==
  /\ embedCall[c].pc = "throttled"
  /\ embedCall[c].wait = 0
  /\ fire(c)
  /\ UNCHANGED <<rateLimitDelay, hits, streakStart>>
  /\ UNCHANGED <<isConnected, pipelineVars, storeVars, otherVars>>

\* return this.generateFallbackEmbedding(text)
returnFallback(call) ==
  [call EXCEPT !.pc = "returned",
               !.result = [kind |-> "resolved",
                           value |-> generateFallbackEmbedding(call.text)]]

\* openai.embeddings.create settles: the rest of the try block, or the catch
\* block up to its await, return or throw
ProviderSettles(c) ==
  /\ embedCall[c].pc = "calling"
  /\ \E settled \in ProviderOutcomes :
       LET call == [embedCall[c] EXCEPT !.lastOutcome = settled]
       IN  IF settled.kind = "ok"
           THEN /\ rateLimitDelay' = decayDelay(rateLimitDelay)
                /\ embedCall' = [embedCall EXCEPT ![c] =
                     [call EXCEPT !.pc = "returned",
                                  !.result = [kind |-> "resolved", value |-> ProviderEmbedding]]]
                /\ hits' = 0
                /\ streakStart' = 0
           ELSE IF settled.status = 429
           THEN /\ rateLimitDelay' = backoffDelay(rateLimitDelay)
                /\ hits' = hits + 1
                /\ streakStart' = IF hits = 0 THEN rateLimitDelay ELSE streakStart
                /\ embedCall' = [embedCall EXCEPT ![c] =
                     IF call.retries + 1 < maxRetries
                     THEN [call EXCEPT !.retries = @ + 1,
                                       !.pc = "backoff",
                                       !.sleeps = @ + 1,
                                       !.wait = backoffDelay(rateLimitDelay)]
                     ELSE returnFallback([call EXCEPT !.retries = @ + 1])]
           ELSE /\ embedCall' = [embedCall EXCEPT ![c] =
                     IF settled.code = "insufficient_quota"
                     THEN returnFallback(call)
                     ELSE [call EXCEPT !.pc = "returned",
                                       !.result = [kind |-> "rejected", value |-> NoEmbedding]]]
                /\ hits' = 0
                /\ streakStart' = 0
                /\ UNCHANGED rateLimitDelay
  /\ UNCHANGED <<timeSinceLastRequest, providerCalls>>
  /\ UNCHANGED <<isConnected, pipelineVars, storeVars, otherVars>>

\* the timer of the backoff sleep fires: continue, the loop is entered again
BackoffOver(c) ==
  /\ embedCall[c].pc = "backoff"
  /\ embedCall[c].wait = 0
  /\ embedCall' = [embedCall EXCEPT ![c].pc = "loop"]
  /\ UNCHANGED <<rateLimitDelay, timeSinceLastRequest, providerCalls, hits, streakStart>>
  /\ UNCHANGED <<isConnected, pipelineVars, storeVars, otherVars>>

\* the caller of generateEmbeddings has taken the result
EmbeddingTaken(c) ==
  /\ embedCall[c].pc = "returned"
  /\ embedCall' = [embedCall EXCEPT ![c] = IdleCall]
  /\ UNCHANGED <<rateLimitDelay, timeSinceLastRequest, providerCalls, hits, streakStart>>
  /\ UNCHANGED <<isConnected, pipelineVars, storeVars, otherVars>>

Sleeping(c) ==
  embedCall[c].pc \in {"throttled", "backoff"}

\* by how much the clock can move next: up to the earliest pending timer;
\* with no timer pending, by a second or by a long time
TimeSteps ==
  LET timers == {embedCall[c].wait : c \in {d \in Callers : Sleeping(d)}}
  IN  IF timers = {}
      THEN {MinDelay, MaxDelay}
      ELSE {t \in timers : \A u \in timers : t <= u}

\* time passes; a timer that is due fires before the clock moves on
Tick ==
  /\ \A c \in Callers : Sleeping(c) => embedCall[c].wait > 0
  /\ \E c \in Callers : embedCall[c].pc # "idle"
  /\ \E t \in TimeSteps :
       /\ timeSinceLastRequest' = Min(MaxDelay, timeSinceLastRequest + t)
       /\ embedCall' = [c \in Callers |->
            IF Sleeping(c) THEN [embedCall[c] EXCEPT !.wait = @ - t] ELSE embedCall[c]]
  /\ timeSinceLastRequest' # timeSinceLastRequest \/ embedCall' # embedCall
  /\ UNCHANGED <<rateLimitDelay, providerCalls, hits, streakStart>>
  /\ UNCHANGED <<isConnected, pipelineVars, storeVars, otherVars>>

\* one invocation of generateEmbeddings after the other
EmbedNext ==
  \/ StartEmbedding("c1", MaxCalls)
  \/ WaitForRateLimit("c1", MaxCalls)
  \/ RateLimitWaitOver("c1")
  \/ ProviderSettles("c1")
  \/ BackoffOver("c1")
  \/ EmbeddingTaken("c1")
  \/ Tick

EmbedSpec ==
  Init /\ [][EmbedNext]_vars

\* invocations of generateEmbeddings under way together
ConcurrentNext ==
  \/ \E c \in Callers : StartEmbedding(c, MaxConcurrentCalls)
  \/ \E c \in Callers : WaitForRateLimit(c, MaxConcurrentCalls)
  \/ \E c \in Callers : RateLimitWaitOver(c)
  \/ \E c \in Callers : ProviderSettles(c)
  \/ \E c \in Callers : BackoffOver(c)
  \/ \E c \in Callers : EmbeddingTaken(c)
  \/ Tick

ConcurrentSpec ==
  Init /\ [][ConcurrentNext]_vars

(***************************************************************************)
(* CustomEmbeddingFunction.generate: the texts are embedded one after the  *)
(* other, each by an invocation of generateEmbeddings.                     *)
(***************************************************************************)
\* the arguments of generate: lists of texts to embed
GenerateInputs ==
  UNION {[1..n -> EmbedTexts] : n \in 0..MaxTexts}

\* faulty variant: the error of generateEmbeddings is not caught
GenerateResumes_uncaught ==
  /\ generateCall.pc = "awaiting"
  /\ embedCall["c1"].pc = "returned"
  /\ generateCall' =
       IF embedCall["c1"].result.kind = "resolved"
       THEN [generateCall EXCEPT !.pc = "loop",
                                 !.embeddings = Append(@, embedCall["c1"].result.value)]
       ELSE [generateCall EXCEPT !.pc = "returned",
                                 !.result = [kind |-> "rejected", value |-> << >>]]
  /\ embedCall' = [embedCall EXCEPT !["c1"] = IdleCall]
  /\ UNCHANGED <<rateLimitDelay, timeSinceLastRequest, providerCalls, hits, streakStart>>
  /\ UNCHANGED <<isConnected, pipelineVars, storeVars, mailVars>>

\* generate(texts) is called: const embeddings = []
Generate ==
  /\ generateCall.pc = "idle"
  /\ \E texts \in GenerateInputs :
       generateCall' = [IdleGenerate EXCEPT !.pc = "loop", !.texts = texts]
  /\ UNCHANGED <<isConnected, pipelineVars, embedVars, storeVars, mailVars>>

\* the head of the for loop: generateEmbeddings(text) is called for the next
\* text, or the list is returned
GenerateLoop ==
  /\ generateCall.pc = "loop"
  /\ IF Len(generateCall.embeddings) < Len(generateCall.texts)
     THEN /\ embedCall' = [embedCall EXCEPT !["c1"] =
               [IdleCall EXCEPT !.pc = "loop",
                                !.text = generateCall.texts[Len(generateCall.embeddings) + 1]]]
          /\ generateCall' = [generateCall EXCEPT !.pc = "awaiting"]
     ELSE /\ generateCall' =
               [generateCall EXCEPT !.pc = "returned",
                                    !.result = [kind |-> "resolved",
                                                value |-> generateCall.embeddings]]
          /\ UNCHANGED embedCall
  /\ UNCHANGED <<rateLimitDelay, timeSinceLastRequest, providerCalls, hits, streakStart>>
  /\ UNCHANGED <<isConnected, pipelineVars, storeVars, mailVars>>

\* the awaited generateEmbeddings has settled: its embedding is pushed, or
\* the catch block pushes the fallback embedding of the text
GenerateResumes ==
  /\ generateCall.pc = "awaiting"
  /\ embedCall["c1"].pc = "returned"
  /\ generateCall' =
       IF embedCall["c1"].result.kind = "resolved"
       THEN [generateCall EXCEPT !.pc = "loop",
                                 !.embeddings = Append(@, embedCall["c1"].result.value)]
       ELSE [generateCall EXCEPT !.pc = "loop",
                                 !.errors = @ + 1,
                                 !.embeddings =
                                   Append(@, generateFallbackEmbedding(embedCall["c1"].text))]
  /\ embedCall' = [embedCall EXCEPT !["c1"] = IdleCall]
  /\ UNCHANGED <<rateLimitDelay, timeSinceLastRequest, providerCalls, hits, streakStart>>
  /\ UNCHANGED <<isConnected, pipelineVars, storeVars, mailVars>>

\* the caller of generate has taken the list
GenerateTaken ==
  /\ generateCall.pc = "returned"
  /\ generateCall' = IdleGenerate
  /\ UNCHANGED <<isConnected, pipelineVars, embedVars, storeVars, mailVars>>

GenerateNext ==
  \/ Generate
  \/ GenerateLoop
  \/ GenerateResumes
  \/ GenerateTaken
  \/ WaitForRateLimit("c1", MaxGenerateCalls)
  \/ RateLimitWaitOver("c1")
  \/ ProviderSettles("c1")
  \/ BackoffOver("c1")
  \/ Tick

GenerateSpec ==
  Init /\ [][GenerateNext]_vars

(***************************************************************************)
(* VectorService: initialize, and then its operations one at a time.       *)
(***************************************************************************)
\* the operation under way completes with this result
complete(op, connected, limit, result) ==
  /\ storeCall' = [op |-> op, connected |-> connected, limit |-> limit, result |-> result]
  /\ storePc' = "returned"
  /\ seedCtx' = "none"
  /\ seedPos' = 0

\* initialize, up to the await of getStats: initializeCollections obtains the
\* two collections and isConnected is set, or it throws and the outer catch
\* block clears isConnected
InitializeCollections ==
  /\ storePc = "boot"
  /\ \E ok \in BOOLEAN, found \in PreexistingStores :
       IF ok
       THEN /\ knowledgeCollection' = found.knowledge
            /\ templatesCollection' = found.templates
            /\ isConnected' = TRUE
            /\ storePc' = "stats"
            /\ UNCHANGED <<storeCall, seedCtx, seedPos>>
       ELSE /\ isConnected' = FALSE
            /\ complete("initialize", FALSE, 0, Fulfilled(<< >>))
            /\ UNCHANGED <<knowledgeCollection, templatesCollection>>
  /\ UNCHANGED <<uuids, seedLog, addFaults>>
  /\ UNCHANGED <<pipelineVars, embedVars, otherVars>>

\* initialize: getStats settles; seedKnowledgeBase is called from the try
\* block if there is no knowledge item, from the inner catch block if
\* getStats threw
InitializeGetStats ==
  /\ storePc = "stats"
  /\ \E counted \in BOOLEAN :
       IF counted /\ Len(knowledgeCollection) # 0
       THEN complete("initialize", TRUE, 0, Fulfilled(<< >>))
       ELSE /\ storePc' = "seeding"
            /\ seedCtx' = IF counted THEN "try" ELSE "catch"
            /\ seedPos' = 0
            /\ UNCHANGED storeCall
  /\ UNCHANGED <<isConnected, knowledgeCollection, templatesCollection, uuids, seedLog,
                 addFaults>>
  /\ UNCHANGED <<pipelineVars, embedVars, otherVars>>

\* outcomes of collection.add: the document is added, or the call rejects
AddOutcomes ==
  IF addFaults < MaxAddFaults THEN {TRUE, FALSE} ELSE {TRUE}

\* the document addKnowledgeItem or addReplyTemplate adds for the seed item
seedDocument(position) ==
  IF position <= Len(SeedKnowledgeCategories)
  THEN SeedKnowledgeCategories[position]
  ELSE SeedTemplateCategories[position - Len(SeedKnowledgeCategories)]

\* seedKnowledgeBase: one turn of its loops, await addKnowledgeItem(item) or
\* await addReplyTemplate(template).  When collection.add rejects,
\* seedKnowledgeBase rejects: called from the try block of initialize it is
\* called again from the inner catch block, called from there the outer catch
\* block clears isConnected, called by anyone else the caller gets the error.
SeedStep ==
  /\ storePc = "seeding"
  /\ uuids < MaxUuids
  /\ uuids' = uuids + 1
  /\ \E added \in AddOutcomes :
       LET position == seedPos + 1
           document == seedDocument(position)
           knowledge == IF position <= Len(SeedKnowledgeCategories)
                        THEN Append(knowledgeCollection, document)
                        ELSE knowledgeCollection
           templates == IF position <= Len(SeedKnowledgeCategories)
                        THEN templatesCollection
                        ELSE Append(templatesCollection, document)
       IN  IF added
           THEN /\ knowledgeCollection' = knowledge
                /\ templatesCollection' = templates
                /\ UNCHANGED <<isConnected, addFaults>>
                /\ IF position < SeedSize
                   THEN /\ seedPos' = position
                        /\ UNCHANGED <<storePc, seedCtx, storeCall, seedLog>>
                   ELSE /\ seedLog' = Append(seedLog, activeStats(knowledge, templates))
                        /\ complete(IF seedCtx = "direct" THEN "seedKnowledgeBase"
                                                          ELSE "initialize",
                                    TRUE, 0, Fulfilled(<< >>))
           ELSE /\ UNCHANGED <<knowledgeCollection, templatesCollection, seedLog>>
                /\ addFaults' = addFaults + 1
                /\ IF seedCtx = "try"
                   THEN /\ seedCtx' = "catch"
                        /\ seedPos' = 0
                        /\ UNCHANGED <<isConnected, storePc, storeCall>>
                   ELSE IF seedCtx = "catch"
                   THEN /\ isConnected' = FALSE
                        /\ complete("initialize", TRUE, 0, Fulfilled(<< >>))
                   ELSE /\ UNCHANGED isConnected
                        /\ complete("seedKnowledgeBase", TRUE, 0, Rejected)
  /\ UNCHANGED <<pipelineVars, embedVars, otherVars>>

\* seedKnowledgeBase called once initialize is over: nothing when
\* disconnected, else the loops are entered
SeedKnowledgeBase ==
  /\ storePc = "ready"
  /\ IF ~isConnected
     THEN /\ complete("seedKnowledgeBase", FALSE, 0, Fulfilled(<< >>))
     ELSE /\ storePc' = "seeding"
          /\ seedCtx' = "direct"
          /\ seedPos' = 0
          /\ UNCHANGED storeCall
  /\ UNCHANGED <<isConnected, knowledgeCollection, templatesCollection, uuids, seedLog,
                 addFaults>>
  /\ UNCHANGED <<pipelineVars, embedVars, otherVars>>

\* addKnowledgeItem(item), item of some category
AddKnowledgeItem ==
  /\ storePc = "ready"
  /\ uuids < MaxUuids
  /\ CustomCount(knowledgeCollection, templatesCollection) < MaxCustom
  /\ uuids' = uuids + 1
  /\ IF ~isConnected
     THEN /\ complete("addKnowledgeItem", FALSE, 0, Fulfilled(uuids + 1))
          /\ UNCHANGED <<knowledgeCollection, seedLog, addFaults>>
     ELSE \E added \in AddOutcomes :
            IF added
            THEN /\ UNCHANGED addFaults
                 /\ knowledgeCollection' =
                      Append(knowledgeCollection, "custom")
                 /\ seedLog' = << >>
                 /\ complete("addKnowledgeItem", TRUE, 0, Fulfilled(uuids + 1))
            ELSE /\ addFaults' = addFaults + 1
                 /\ complete("addKnowledgeItem", TRUE, 0, Rejected)
                 /\ UNCHANGED <<knowledgeCollection, seedLog>>
  /\ UNCHANGED <<isConnected, templatesCollection>>
  /\ UNCHANGED <<pipelineVars, embedVars, otherVars>>

\* addReplyTemplate(template)
AddReplyTemplate ==
  /\ storePc = "ready"
  /\ uuids < MaxUuids
  /\ CustomCount(knowledgeCollection, templatesCollection) < MaxCustom
  /\ uuids' = uuids + 1
  /\ IF ~isConnected
     THEN /\ complete("addReplyTemplate", FALSE, 0, Fulfilled(uuids + 1))
          /\ UNCHANGED <<templatesCollection, seedLog, addFaults>>
     ELSE \E added \in AddOutcomes :
            IF added
            THEN /\ UNCHANGED addFaults
                 /\ templatesCollection' =
                      Append(templatesCollection, "custom")
                 /\ seedLog' = << >>
                 /\ complete("addReplyTemplate", TRUE, 0, Fulfilled(uuids + 1))
            ELSE /\ addFaults' = addFaults + 1
                 /\ complete("addReplyTemplate", TRUE, 0, Rejected)
                 /\ UNCHANGED <<templatesCollection, seedLog>>
  /\ UNCHANGED <<isConnected, knowledgeCollection>>
  /\ UNCHANGED <<pipelineVars, embedVars, otherVars>>

\* faulty variant: the server listens from the start of startApp
Listening_atStart ==
  TRUE

\* startApp has gone past its await of vectorService.initialize() and has
\* called app.listen: the routes can be requested
Listening ==
  \/ storePc = "ready"
  \/ storePc = "returned" /\ storeCall.op # "initialize"

\* the operations are looked at one at a time: the result of the last one
\* has been taken
NoneUnderWay ==
  storePc # "returned"

\* getStats(): the fixed record when disconnected, else the two counts, or the
\* error of a count that rejected
GetStats ==
  /\ Listening
  /\ NoneUnderWay
  /\ IF ~isConnected
     THEN complete("getStats", FALSE, 0, Fulfilled(DisconnectedStats))
     ELSE \E counted \in BOOLEAN :
            complete("getStats", TRUE, 0,
                     IF counted
                     THEN Fulfilled(activeStats(knowledgeCollection, templatesCollection))
                     ELSE Rejected)
  /\ UNCHANGED <<isConnected, knowledgeCollection, templatesCollection, uuids, seedLog,
                 addFaults>>
  /\ UNCHANGED <<pipelineVars, embedVars, otherVars>>

\* faulty variant: a query that rejects switches the store to disconnected
SearchKnowledge_disconnecting ==
  /\ Listening
  /\ NoneUnderWay
  /\ \E limit \in Limits :
       IF ~isConnected
       THEN /\ complete("searchKnowledge", FALSE, limit,
                        searchKnowledge(FALSE, limit, QueryError))
            /\ UNCHANGED isConnected
       ELSE \E query \in KnowledgeQueryOutcomes(limit) :
              /\ complete("searchKnowledge", TRUE, limit,
                          searchKnowledge(TRUE, limit, query))
              /\ isConnected' = (query.kind # "error")
  /\ UNCHANGED <<knowledgeCollection, templatesCollection, uuids, seedLog, addFaults>>
  /\ UNCHANGED <<pipelineVars, embedVars, otherVars>>

\* searchKnowledge(query, limit)
SearchKnowledge ==
  /\ Listening
  /\ NoneUnderWay
  /\ \E limit \in Limits :
       IF ~isConnected
       THEN complete("searchKnowledge", FALSE, limit,
                     searchKnowledge(FALSE, limit, QueryError))
       ELSE \E query \in KnowledgeQueryOutcomes(limit) :
              complete("searchKnowledge", TRUE, limit,
                       searchKnowledge(TRUE, limit, query))
  /\ UNCHANGED <<isConnected, knowledgeCollection, templatesCollection, uuids, seedLog,
                 addFaults>>
  /\ UNCHANGED <<pipelineVars, embedVars, otherVars>>

\* searchReplyTemplates(query, limit)
SearchReplyTemplates ==
  /\ Listening
  /\ NoneUnderWay
  /\ \E limit \in Limits :
       IF ~isConnected
       THEN complete("searchReplyTemplates", FALSE, limit,
                     searchReplyTemplates(FALSE, limit, QueryError))
       ELSE \E query \in NearestTemplateOutcomes(limit) :
              complete("searchReplyTemplates", TRUE, limit,
                       searchReplyTemplates(TRUE, limit, query))
  /\ UNCHANGED <<isConnected, knowledgeCollection, templatesCollection, uuids, seedLog,
                 addFaults>>
  /\ UNCHANGED <<pipelineVars, embedVars, otherVars>>

\* the caller of the operation has taken its result; the next operation can
\* be called
StoreResultTaken ==
  /\ storePc = "returned"
  /\ storePc' = "ready"
  /\ storeCall' = NoStoreCall
  /\ UNCHANGED <<isConnected, knowledgeCollection, templatesCollection, uuids, seedCtx,
                 seedPos, seedLog, addFaults>>
  /\ UNCHANGED <<pipelineVars, embedVars, otherVars>>

StoreNext ==
  \/ InitializeCollections
  \/ InitializeGetStats
  \/ SeedStep
  \/ SeedKnowledgeBase
  \/ AddKnowledgeItem
  \/ AddReplyTemplate
  \/ GetStats
  \/ SearchKnowledge
  \/ SearchReplyTemplates
  \/ StoreResultTaken

StoreSpec ==
  Init /\ [][StoreNext]_vars

(***************************************************************************)
(* EmailService and the route POST /api/send-email.  A request body is a   *)
(* record whose domain is the keys present; its values are strings, of     *)
(* which only emptiness matters here.                                      *)
(***************************************************************************)
MailFieldValues ==
  {"", "text"}

\* the bodies of the requests: each of from, to, subject and body is absent,
\* empty or a text
MailBodies ==
  UNION {[keys -> MailFieldValues] : keys \in SUBSET {"from", "to", "subject", "body"}}

\* !from || !to || !subject is false
mailValidated(b) ==
  \A field \in {"from", "to", "subject"} : field \in DOMAIN b /\ b[field] # ""

mailBadRequest ==
  [status |-> 400, success |-> FALSE, error |-> "Missing required fields: from, to, subject"]

mailSent(messageId) ==
  [status |-> 200, success |-> TRUE, messageId |-> messageId,
   message |-> "Email sent successfully"]

mailFailed ==
  [status |-> 500, success |-> FALSE, error |-> "Failed to send email"]

\* body.length and body.replace throw a TypeError when body is undefined
bodyThrows(b) ==
  "body" \notin DOMAIN b

\* the constructor calls initializeTransporter, which runs up to its await
\* of transporter.verify(), or to the end of its catch block when
\* createTransport throws
InitializeTransporter ==
  /\ mailerPc = "constructing"
  /\ \E created \in BOOLEAN :
       IF created
       THEN /\ transporter' = "transporter"
            /\ mailerPc' = "verifying"
            /\ UNCHANGED initialized
       ELSE /\ initialized' = FALSE
            /\ mailerPc' = "settled"
            /\ UNCHANGED transporter
  /\ UNCHANGED <<mail, sendMailCalls>>
  /\ UNCHANGED <<isConnected, pipelineVars, embedVars, storeVars, generateCall>>

\* transporter.verify() settles
VerifySettles ==
  /\ mailerPc = "verifying"
  /\ \E verified \in BOOLEAN : initialized' = verified
  /\ mailerPc' = "settled"
  /\ UNCHANGED <<transporter, mail, sendMailCalls>>
  /\ UNCHANGED <<isConnected, pipelineVars, embedVars, storeVars, generateCall>>

\* sendEmail in fallback mode: the email is logged, with body.length, and a
\* fallback message id is returned
sendEmailFallback(b) ==
  IF bodyThrows(b) THEN mailFailed ELSE mailSent("fallback_")

\* the route handler and sendEmail, up to the response or to the await of
\* transporter.sendMail
PostSendEmail ==
  /\ mailerPc # "constructing"
  /\ mail.pc = "idle"
  /\ \E b \in MailBodies :
       IF ~mailValidated(b)
       THEN /\ mail' = [pc |-> "responded", body |-> b, response |-> mailBadRequest]
            /\ UNCHANGED sendMailCalls
       ELSE IF ~initialized \/ transporter = "null"
       THEN /\ mail' = [pc |-> "responded", body |-> b, response |-> sendEmailFallback(b)]
            /\ UNCHANGED sendMailCalls
       ELSE IF bodyThrows(b)
       THEN /\ mail' = [pc |-> "responded", body |-> b, response |-> mailFailed]
            /\ UNCHANGED sendMailCalls
       ELSE /\ sendMailCalls < MaxSendMailCalls
            /\ mail' = [pc |-> "sending", body |-> b, response |-> NoResponse]
            /\ sendMailCalls' = sendMailCalls + 1
  /\ UNCHANGED <<transporter, initialized, mailerPc>>
  /\ UNCHANGED <<isConnected, pipelineVars, embedVars, storeVars, generateCall>>

\* transporter.sendMail settles: the message id of the transporter, or the
\* error caught by sendEmail
SendMailSettles ==
  /\ mail.pc = "sending"
  /\ \E sent \in BOOLEAN :
       mail' = [mail EXCEPT !.pc = "responded",
                            !.response = IF sent THEN mailSent("smtp_") ELSE mailFailed]
  /\ UNCHANGED <<transporter, initialized, mailerPc, sendMailCalls>>
  /\ UNCHANGED <<isConnected, pipelineVars, embedVars, storeVars, generateCall>>

\* the response has been sent; the next request can be looked at
MailResponseSent ==
  /\ mail.pc = "responded"
  /\ mail' = NoMail
  /\ UNCHANGED <<transporter, initialized, mailerPc, sendMailCalls>>
  /\ UNCHANGED <<isConnected, pipelineVars, embedVars, storeVars, generateCall>>

MailNext ==
  \/ InitializeTransporter
  \/ VerifySettles
  \/ PostSendEmail
  \/ SendMailSettles
  \/ MailResponseSent

MailSpec ==
  Init /\ [][MailNext]_vars

(***************************************************************************)
(* Properties.                                                             *)
(***************************************************************************)
\* generateReplySuggestions was invoked and has handed its result over
Finished ==
  \/ pc \in {"Done", "Fallback"}
  \/ pc = "Returned" /\ response.status # 400

ReplyIds(list) ==
  {list[i].id : i \in DOMAIN list}

IsFallbackReply(reply) ==
  /\ reply.id = "fallback"
  /\ reply.confidence = 50
  /\ reply.metadata.category = "general"
  /\ reply.metadata.tone = "professional"
  /\ reply.metadata.action_required = TRUE
  /\ reply.metadata.estimated_response_time = "24 hours"
  /\ reply.context.reasoning = <<"Fallback response due to processing error">>
  /\ reply.context.relevantKnowledge = << >>
  /\ reply.context.matchedTemplate = << >>

\* C1: for every EmailContext and every combination of outcomes of the intent
\* call, the two searches and the reply call, generateReplySuggestions never
\* rejects, and what it resolves with is a list of at least one SuggestedReply.
C1_Totality ==
  /\ outcome.kind # "rejected"
  /\ Finished => /\ outcome.kind = "resolved"
                 /\ Len(outcome.value) >= 1

\* C1 witness: an EmailContext with an empty subject, the intent call failed,
\* a search rejected, and a list of one reply was still returned
C1_Witness ==
  /\ pc = "Fallback"
  /\ email.subject = << >>
  /\ intent = GeneralInquiry
  /\ knowledgeSearch.state = "rejected"
  /\ Len(outcome.value) = 1

\* C2: whenever an exception escapes classification, retrieval or synthesis,
\* the result is a list of exactly one reply, the fallback reply with its fixed
\* fields, and holds none of the suggestions built before the exception.
C2_FallbackOnException ==
  pc = "Fallback" =>
    /\ outcome.kind = "resolved"
    /\ Len(outcome.value) = 1
    /\ IsFallbackReply(outcome.value[1])
    /\ \A i \in DOMAIN suggestions :
         \A j \in DOMAIN outcome.value : outcome.value[j] # suggestions[i]

\* C2 witness: the reply call threw after the template suggestion was built
C2_Witness ==
  /\ pc = "Fallback"
  /\ Len(suggestions) = 1
  /\ suggestions[1].id = "template_"
  /\ IsFallbackReply(outcome.value[1])

\* C3: every reply returned on any path has a confidence between 0 and 1,
\* for every similarity 1 - distance with a distance between 0 and 2.
C3_ConfidenceBounds ==
  outcome.kind = "resolved" =>
    \A i \in DOMAIN outcome.value :
      /\ 0 <= outcome.value[i].confidence
      /\ outcome.value[i].confidence <= 100

\* C3 witness: a list with a template reply was returned although the store
\* reported a negative similarity for another template
C3_Witness ==
  /\ pc = "Done"
  /\ "template_" \in ReplyIds(outcome.value)
  /\ Len(templateResults) = 2
  /\ templateResults[2].similarity < 0

\* C4: every POST /api/suggest-replies that passes the validation is answered
\* 200 with success true and at least one suggestion, whatever the language
\* model and the store did; never 500.
C4_AlwaysOk ==
  (caller = "http" /\ pc = "Returned" /\ hasRequiredFields(email)) =>
    /\ response.status = 200
    /\ response.success = TRUE
    /\ Len(response.suggestions) >= 1

\* C4 witness: a validated request answered 200 after the store query failed
C4_Witness ==
  /\ caller = "http"
  /\ pc = "Returned"
  /\ templateSearch.state = "rejected"
  /\ response.status = 200
  /\ Len(response.suggestions) = 1

AllPresent(body) ==
  {"subject", "body", "from"} \subseteq DOMAIN body

PipelineUntouched ==
  /\ outcome = NoOutcome
  /\ intent = << >>
  /\ knowledgeSearch = NotStarted
  /\ templateSearch = NotStarted
  /\ suggestions = << >>

\* C5: POST /api/suggest-replies answers 400 exactly when subject, body or
\* from is missing from the request body, and then the pipeline is never
\* entered; a body that holds all three, empty strings included, is passed on.
C5_Validation ==
  caller = "http" =>
    /\ (response.status = 400) <=> ~AllPresent(email)
    /\ response.status = 400 => PipelineUntouched
    /\ (AllPresent(email) /\ pc = "Returned") => outcome.kind = "resolved"

\* the reply's strategy, by the prefix of its id
IsTemplateReply(reply) ==
  reply.id = "template_"

IsAIReply(reply) ==
  reply.id = "ai_"

IsQuickReply(reply) ==
  reply.id = "quick_"

StrategyRank(reply) ==
  IF IsTemplateReply(reply) THEN 1
  ELSE IF IsAIReply(reply) THEN 2
  ELSE IF IsQuickReply(reply) THEN 3
  ELSE 0

CountOf(list, id) ==
  Cardinality({i \in DOMAIN list : list[i].id = id})

\* the invocation returned from its try block
NonFallbackReturn ==
  /\ outcome.kind = "resolved"
  /\ "fallback" \notin ReplyIds(outcome.value)

\* C6: on every non-fallback return the list has 1 to 3 elements: at most one
\* template suggestion, exactly one AI suggestion, at most one quick response,
\* in the order template, AI, quick response.
C6_ListShape ==
  NonFallbackReturn =>
    LET list == outcome.value
    IN  /\ 1 <= Len(list) /\ Len(list) <= 3
        /\ CountOf(list, "template_") <= 1
        /\ CountOf(list, "ai_") = 1
        /\ CountOf(list, "quick_") <= 1
        /\ \A i \in DOMAIN list : StrategyRank(list[i]) # 0
        /\ \A i, j \in DOMAIN list :
             i < j => StrategyRank(list[i]) < StrategyRank(list[j])

\* C6 witness: a return with all three strategies
C6_Witness ==
  /\ pc = "Done"
  /\ Len(outcome.value) = 3
  /\ IsTemplateReply(outcome.value[1])
  /\ IsAIReply(outcome.value[2])
  /\ IsQuickReply(outcome.value[3])

TopSimilarityAbove07 ==
  /\ Len(templateSearch.value) > 0
  /\ templateSearch.value[1].similarity > 70

TemplateGating ==
  /\ (CountOf(outcome.value, "template_") > 0) <=> TopSimilarityAbove07
  /\ CountOf(outcome.value, "template_") > 0 =>
       /\ IsTemplateReply(outcome.value[1])
       /\ outcome.value[1].confidence = templateSearch.value[1].similarity

\* C7 as stated: the template suggestion is in the output if and only if the
\* top-ranked template result has a similarity above 0.7; it is then the
\* first element and its confidence is that similarity.
C7_TemplateGating_AsStated ==
  (/\ outcome.kind = "resolved"
   /\ knowledgeSearch.state = "fulfilled"
   /\ templateSearch.state = "fulfilled") => TemplateGating

\* C7 as amended: the same, on every non-fallback return.
C7_TemplateGating ==
  NonFallbackReturn => TemplateGating

\* C7 witness: similarity 0.71, the template suggestion is first
C7_Witness ==
  /\ pc = "Done"
  /\ templateSearch.value # << >>
  /\ templateSearch.value[1].similarity = 71
  /\ IsTemplateReply(outcome.value[1])
  /\ outcome.value[1].confidence = 71

\* the scenario of C8: the store is disconnected, both completion calls
\* succeeded, and the email is the one of the example
C8_Scenario ==
  /\ pc = "Done"
  /\ ~isConnected
  /\ email = [subject |-> Txt_C8_subject, body |-> Txt_C8_body, from |-> Txt_alice]
  /\ intent # GeneralInquiry

\* C8 as stated: exactly two suggestions, the AI one (confidence 0.8, category
\* general) and then the thanks quick response (confidence 0.9, category
\* acknowledgment); no template suggestion.
C8_EndToEnd_AsStated ==
  C8_Scenario =>
    /\ Len(outcome.value) = 2
    /\ IsAIReply(outcome.value[1])
    /\ outcome.value[1].confidence = 80
    /\ outcome.value[1].metadata.category = "general"
    /\ IsQuickReply(outcome.value[2])
    /\ outcome.value[2].confidence = 90
    /\ outcome.value[2].metadata.category = "acknowledgment"

\* C8 as amended: exactly three suggestions: the template suggestion built
\* from the first static fallback template (confidence 0.8, category
\* job_interview), the AI one (confidence 0.8, category meeting), and the
\* thanks quick response (confidence 0.9, category acknowledgment).
C8_EndToEnd ==
  C8_Scenario =>
    /\ Len(outcome.value) = 3
    /\ IsTemplateReply(outcome.value[1])
    /\ outcome.value[1].confidence = 80
    /\ outcome.value[1].metadata.category = "job_interview"
    /\ IsAIReply(outcome.value[2])
    /\ outcome.value[2].confidence = 80
    /\ outcome.value[2].metadata.category = "meeting"
    /\ IsQuickReply(outcome.value[3])
    /\ outcome.value[3].confidence = 90
    /\ outcome.value[3].metadata.category = "acknowledgment"

\* C8 witness: the scenario, reached through the HTTP handler
C8_Witness ==
  /\ C8_Scenario
  /\ caller = "http"
  /\ outcome.kind = "resolved"

\* the AI-contextual strategy threw: both searches had fulfilled
AIStrategyThrew ==
  /\ pc = "Fallback"
  /\ knowledgeSearch.state = "fulfilled"
  /\ templateSearch.state = "fulfilled"

\* C9: if the AI-contextual strategy throws, the result is exactly the single
\* global fallback reply, also when the template strategy had produced a
\* suggestion and a quick-response pattern matches.
C9_AllOrNothing ==
  AIStrategyThrew => outcome = Resolved(FallbackSuggestions)

\* C9 witness: the AI strategy threw after a template suggestion was built,
\* for an email that matches a quick-response pattern
C9_Witness ==
  /\ AIStrategyThrew
  /\ CountOf(suggestions, "template_") = 1
  /\ generateQuickResponse(email) # << >>

\* C10: a failing retrieval call never raises and never leads to the global
\* fallback reply: when one of the two searches fails, the pipeline goes on
\* to synthesis with that side's static fallback data.
C10_RetrievalNeverRaises ==
  /\ knowledgeSearch.state # "rejected"
  /\ templateSearch.state # "rejected"
  /\ pc = "Fallback" => AIStrategyThrew

\* the chat completion of analyzeEmailIntent failed: the call rejected, the
\* response has no choices, or its first choice has no or only blank content
IntentCallFailed ==
  \/ completionThrows(intentCompletion)
  \/ intentCompletion.kind = "nocontent"
  \/ intentCompletion.kind = "content" /\ trim(intentCompletion.content) = << >>

\* C12: analyzeEmailIntent never rejects: once its chat completion has
\* settled, whatever the outcome, generateReplySuggestions goes on to issue
\* the two searches and has not taken its fallback path; if the completion
\* failed (rejection, no choices, no or blank content) the intent it goes on
\* with is the literal 'General inquiry'.
C12_IntentNeverRejects ==
  [][pc = "Classified" =>
       /\ pc' = "Retrieving"
       /\ outcome' = NoOutcome
       /\ knowledgeSearch' = Pending
       /\ templateSearch' = Pending
       /\ IntentCallFailed => intent' = GeneralInquiry]_vars

\* C12 witness: retrieval is under way with the intent 'General inquiry',
\* which only a failed completion yields
C12_Witness ==
  /\ pc = "Retrieving"
  /\ intent = GeneralInquiry
  /\ knowledgeSearch = Pending
  /\ templateSearch = Pending
  /\ outcome = NoOutcome

(***************************************************************************)
(* Properties of the embedding provider.                                   *)
(***************************************************************************)
Returned(c) ==
  embedCall[c].pc = "returned"

IsFallbackResult(c) ==
  /\ embedCall[c].result.kind = "resolved"
  /\ embedCall[c].result.value.source = "fallback"

\* C11: for every outcome of the provider call (success, 429, quota, any other
\* error), generateEmbeddings resolves with a vector of dimension 1536, the
\* provider's or the fallback embedding, and never rejects.
C11_NeverFailsOutward ==
  \A c \in Callers :
    Returned(c) =>
      /\ embedCall[c].result.kind = "resolved"
      /\ embedCall[c].result.value.dim = 1536
      /\ embedCall[c].result.value.source \in {"provider", "fallback"}

RECURSIVE Pow2(_)
Pow2(n) ==
  IF n = 0 THEN 1 ELSE 2 * Pow2(n - 1)

\* C15: after N 429 responses in a row that started at a delay of 1000 ms,
\* rateLimitDelay is 2000, 4000, 8000, 16000 for N = 1..4 and 30000 from
\* N = 5 on: it doubles, strictly increasing, until it reaches 30000, stays
\* there, and never exceeds it.
C15_BackoffMonotone ==
  /\ rateLimitDelay <= 30000
  /\ (hits > 0 /\ streakStart = 1000) =>
       rateLimitDelay = IF hits <= 4 THEN 1000 * Pow2(hits) ELSE 30000

\* C15 witness: six 429 responses in a row from 1000 ms on; the sixth found
\* the delay at 30000 and left it there
C15_Witness ==
  /\ hits = 6
  /\ streakStart = 1000
  /\ rateLimitDelay = 30000

\* C16: provider calls are serialized: whenever a provider call starts, at
\* least the current rateLimitDelay has passed since the provider call before
\* it started; in particular no two callers that waited on the same
\* lastRequestTime fire at the same instant.
C16_Serialized ==
  [][providerCalls' = providerCalls + 1 =>
       /\ timeSinceLastRequest >= rateLimitDelay
       /\ timeSinceLastRequest > 0]_vars

\* the squared L2 norm, in units of 10^-8, is within one percent of 1
IsUnitNorm(vector) ==
  LET squares == sumOfSquares(vector.entries, DOMAIN vector.entries)
  IN  /\ squares >= 99000000
      /\ squares <= 101000000

\* C17: the fallback embedding a call returns is a function of the text alone,
\* whatever the rate-limit state, has length 1536 and, for every non-empty
\* text, single-character texts included, L2 norm 1.
C17_FallbackEmbedding ==
  \A c \in Callers :
    IsFallbackResult(c) =>
      /\ embedCall[c].result.value = generateFallbackEmbedding(embedCall[c].text)
      /\ embedCall[c].result.value.dim = 1536
      /\ embedCall[c].text # << >> => IsUnitNorm(embedCall[c].result.value)

\* C20: one invocation of generateEmbeddings calls the provider at most three
\* times and sleeps for backoff at most twice; after its third 429 it has
\* returned the fallback embedding; after an insufficient_quota error it has
\* returned the fallback embedding without a retry.
C20_BoundedRetries ==
  \A c \in Callers :
    /\ embedCall[c].calls <= 3
    /\ embedCall[c].sleeps <= 2
    /\ embedCall[c].retries = 3 => Returned(c) /\ IsFallbackResult(c)
    /\ embedCall[c].lastOutcome.code = "insufficient_quota" =>
         Returned(c) /\ IsFallbackResult(c)

(***************************************************************************)
(* Properties of the quick-response strategy.                              *)
(***************************************************************************)
\* the subject or the body contains the keyword, whatever the case
HasKeyword(e, keyword) ==
  \/ includes(toLowerCase(e.subject), keyword)
  \/ includes(toLowerCase(e.body), keyword)

QuickReplies(list) ==
  SelectSeq(list, IsQuickReply)

IsThanksAcknowledgment(reply) ==
  /\ IsQuickReply(reply)
  /\ reply.confidence = 90
  /\ reply.metadata.category = "acknowledgment"
  /\ reply.metadata.action_required = FALSE

\* C18: a returned list holds a quick response exactly when the subject or the
\* body of the email contains 'thank' or 'confirm', whatever the case; an
\* email whose only keyword is 'thank' gets the thanks acknowledgment.
C18_QuickResponseKeywords ==
  pc = "Done" =>
    /\ Len(QuickReplies(outcome.value)) > 0 <=>
         (HasKeyword(email, Kw_thank) \/ HasKeyword(email, Kw_confirm))
    /\ (HasKeyword(email, Kw_thank) /\ ~HasKeyword(email, Kw_confirm)) =>
         \E i \in DOMAIN outcome.value : IsThanksAcknowledgment(outcome.value[i])

\* C19: for an email that contains both 'thank' and 'confirm', the returned
\* list holds exactly one quick response, the thanks acknowledgment
\* (confidence 0.9, category acknowledgment, action_required false).
C19_ThanksWins ==
  (pc = "Done" /\ HasKeyword(email, Kw_thank) /\ HasKeyword(email, Kw_confirm)) =>
    /\ Len(QuickReplies(outcome.value)) = 1
    /\ IsThanksAcknowledgment(QuickReplies(outcome.value)[1])

(***************************************************************************)
(* Properties of the knowledge store.                                      *)
(***************************************************************************)
Similarities(list) ==
  [i \in DOMAIN list |-> list[i].similarity]

\* the last operation was carried out in disconnected mode
DisconnectedCall(op) ==
  /\ storeCall.op = op
  /\ ~storeCall.connected

\* C13: in disconnected mode no operation raises; addKnowledgeItem and
\* addReplyTemplate return a fresh id and leave the collections as they are;
\* searchKnowledge returns the first min(limit, 3) and searchReplyTemplates
\* the first min(limit, 2) entries of the static lists, in order, with their
\* fixed similarities; getStats reports 0, 0 and 'disconnected'.
C13_DisconnectedMode ==
  /\ [](/\ (storeCall.op # "none" /\ ~storeCall.connected) =>
              storeCall.result.state = "fulfilled"
        /\ (DisconnectedCall("addKnowledgeItem") \/ DisconnectedCall("addReplyTemplate")) =>
              storeCall.result.value = uuids
        /\ DisconnectedCall("searchKnowledge") =>
              /\ storeCall.result.value =
                   SubSeq(FallbackKnowledgeItems, 1, Min(storeCall.limit, 3))
              /\ Similarities(storeCall.result.value) =
                   SubSeq(<<80, 70, 60>>, 1, Min(storeCall.limit, 3))
        /\ DisconnectedCall("searchReplyTemplates") =>
              /\ storeCall.result.value =
                   SubSeq(FallbackTemplates, 1, Min(storeCall.limit, 2))
              /\ Similarities(storeCall.result.value) =
                   SubSeq(<<80, 70>>, 1, Min(storeCall.limit, 2))
        /\ DisconnectedCall("getStats") =>
              storeCall.result.value =
                [knowledgeItems |-> 0, replyTemplates |-> 0, status |-> "disconnected"])
  /\ [][(~isConnected /\ storePc = "ready") =>
          /\ knowledgeCollection' = knowledgeCollection
          /\ templatesCollection' = templatesCollection
          /\ uuids' >= uuids]_vars

\* C13 witness: a search with limit 4 on a store that initialize left
\* disconnected with documents in it returned the three static entries
C13_Witness ==
  /\ DisconnectedCall("searchKnowledge")
  /\ storeCall.limit = 4
  /\ Len(storeCall.result.value) = 3
  /\ Len(knowledgeCollection) > 0

\* C14: seeding is idempotent: the counts getStats reports after a call of
\* seedKnowledgeBase on a connected store equal those after the call of
\* seedKnowledgeBase before it; no seed item is duplicated.
C14_SeedingIdempotent ==
  \A i \in 2..Len(seedLog) : seedLog[i] = seedLog[i - 1]

(***************************************************************************)
(* Properties of the retrieval phase and of the categories.                *)
(***************************************************************************)
\* generateReplySuggestions has gone past its await of the two searches
PastRetrieval ==
  pc \in {"Template", "AI", "Quick", "Done", "Fallback", "Returned"}

\* C22: the two searches are issued together, and generateReplySuggestions
\* goes past the Retrieving phase, to the strategies or to the fallback, only
\* when both searches have settled: it never returns with a search in flight.
C22_BothSettled ==
  /\ (knowledgeSearch.state = "none") <=> (templateSearch.state = "none")
  /\ PastRetrieval => NoSearchInFlight

\* the first rule whose keyword occurs in the subject or in the body
FirstCategory(e) ==
  IF HasKeyword(e, Kw_interview) THEN "job_interview"
  ELSE IF HasKeyword(e, Kw_meeting) THEN "meeting"
  ELSE IF HasKeyword(e, Kw_demo) THEN "sales_demo"
  ELSE IF HasKeyword(e, Kw_support) \/ HasKeyword(e, Kw_help) THEN "technical_support"
  ELSE IF HasKeyword(e, Kw_collaboration) \/ HasKeyword(e, Kw_project) THEN "collaboration"
  ELSE "general"

\* C24: the category of the AI-contextual suggestion of a returned list is
\* that of the first rule (interview, meeting, demo, support/help,
\* collaboration/project) whose keyword occurs in the subject or in the body,
\* and 'general' when no keyword occurs.
C24_CategoryRules ==
  pc = "Done" =>
    \A i \in DOMAIN outcome.value :
      IsAIReply(outcome.value[i]) =>
        outcome.value[i].metadata.category = FirstCategory(email)

(***************************************************************************)
(* Termination of generateReplySuggestions.  The event loop runs every     *)
(* continuation that is ready, so the steps of the invocation itself are   *)
(* weakly fair.  The external calls (the intent completion, the two        *)
(* searches, the reply completion) settle when their service answers; that *)
(* each of them does settle is the hypothesis under which termination is   *)
(* claimed, stated here as weak fairness of the steps in which they settle.*)
(* No step of an invocation can be repeated without another one in         *)
(* between, so the fairness of each step is the fairness of Progress.      *)
(***************************************************************************)
Progress ==
  \/ initialize
  \/ IntentCompletionSettles
  \/ Classify
  \/ SearchKnowledgeSettles
  \/ SearchTemplatesSettles
  \/ AwaitRetrieval
  \/ TemplateStrategy
  \/ AIStrategy
  \/ QuickStrategy
  \/ Resume

LiveSpec ==
  /\ Init
  /\ [][Next]_vars
  /\ WF_vars(Progress)

\* generateReplySuggestions has been invoked and has not returned yet
Invoked ==
  pc \in {"Classifying", "Classified", "Retrieving", "Template", "AI", "Quick"}

\* generateReplySuggestions has returned, through Done or through Fallback
HasReturned ==
  pc \in {"Done", "Fallback", "Returned"} /\ outcome.kind # "none"

\* C23: when every external call settles, every invocation of
\* generateReplySuggestions returns, through Done or Fallback; and an
\* invocation returns only when none of the calls it awaits is unsettled, so
\* that a call that never settles keeps the invocation from returning.
C23_ReturnsIffCallsSettle ==
  /\ Invoked ~> HasReturned
  /\ [](HasReturned => NoSearchInFlight)

\* how far an invocation is from returning: the steps it has yet to take,
\* counting the searches that have not settled
Rank ==
  CASE pc = "Classifying" -> 8
    [] pc = "Classified" -> 7
    [] pc = "Retrieving" ->
         4 + (IF knowledgeSearch.state = "pending" THEN 1 ELSE 0)
           + (IF templateSearch.state = "pending" THEN 1 ELSE 0)
    [] pc = "Template" -> 3
    [] pc = "AI" -> 2
    [] pc = "Quick" -> 1
    [] OTHER -> 0

\* the first half of C23 by a ranking argument: an invocation that has not
\* returned can always take a step (only the await of the two searches has a
\* condition besides the position), and each of its steps brings it nearer
\* to its return; under the fairness of LiveSpec it then returns
ReturnsWhenCallsSettle_Enabled ==
  pc = "Retrieving" =>
    \/ knowledgeSearch.state = "pending"
    \/ templateSearch.state = "pending"
    \/ knowledgeSearch.state = "rejected"
    \/ templateSearch.state = "rejected"
    \/ knowledgeSearch.state = "fulfilled" /\ templateSearch.state = "fulfilled"

ReturnsWhenCallsSettle_Ranked ==
  [][Invoked => Rank' < Rank]_vars

(***************************************************************************)
(* Properties of initialize and of the start of the server.                *)
(***************************************************************************)
\* initialize has been called and has not settled
InitializeUnderWay ==
  \/ storePc \in {"boot", "stats"}
  \/ storePc = "seeding" /\ seedCtx \in {"try", "catch"}

\* initialize calls seedKnowledgeBase in this step, from its try block or
\* from its inner catch block
SeedCalledByInitialize ==
  /\ storePc' = "seeding"
  /\ seedCtx' \in {"try", "catch"}
  /\ storePc # "seeding" \/ seedCtx' # seedCtx

\* C25: on every path through initialize, seedKnowledgeBase is called only
\* when the knowledge collection holds no item: a store that holds items is
\* never seeded again by initialize.
C25_SeedOnlyIfEmpty ==
  [][SeedCalledByInitialize => Len(knowledgeCollection) = 0]_vars

\* C26 as stated: isConnected is set once per run of initialize and by
\* nothing else, so its value changes only where initialize sets it after
\* initializeCollections, and does not change again.
C26_SetOnce_AsStated ==
  [][isConnected' # isConnected => (storePc = "boot" /\ isConnected')]_vars

\* C26: isConnected is assigned only inside initialize (set after
\* initializeCollections, and cleared again by the outer catch block when the
\* seeding called from the inner catch block fails); no add, search, getStats
\* or seedKnowledgeBase changes it, and once initialize has settled it keeps
\* its value: a query that fails does not disconnect the store and a
\* disconnected store does not reconnect.
C26_OnlyInitialize ==
  /\ [][isConnected' # isConnected => InitializeUnderWay]_vars
  /\ [][~InitializeUnderWay => ~InitializeUnderWay']_vars

\* C26 witness: initialize has settled with the store connected, and a
\* knowledge query has rejected since: the store is still connected
C26_Witness ==
  /\ storePc = "returned"
  /\ storeCall.op = "searchKnowledge"
  /\ storeCall.result.state = "rejected"
  /\ isConnected

\* every document of the two collections was added by this process
StartedEmpty ==
  Len(knowledgeCollection) + Len(templatesCollection) = uuids - addFaults

\* C27: when the collections were empty at the start and initialize ends
\* with the store connected, the knowledge collection holds the 3 seed items
\* and the template collection the 4 seed templates, each once, whichever
\* count and add calls failed on the way.
C27_SeededOnce ==
  (storePc = "returned" /\ storeCall.op = "initialize" /\ isConnected /\ StartedEmpty) =>
    /\ knowledgeCollection = SeedKnowledgeCategories
    /\ templatesCollection = SeedTemplateCategories

\* the operations the routes /api/suggest-replies and /api/rag-stats call
RequestOps ==
  {"getStats", "searchKnowledge", "searchReplyTemplates"}

\* an operation called by a request runs in this step
RequestRuns ==
  /\ storePc # "returned"
  /\ storePc' = "returned"
  /\ storeCall'.op \in RequestOps

\* every seed item is in its collection
FullySeeded ==
  /\ \A i \in DOMAIN SeedKnowledgeCategories :
       \E j \in DOMAIN knowledgeCollection :
         knowledgeCollection[j] = SeedKnowledgeCategories[i]
  /\ \A i \in DOMAIN SeedTemplateCategories :
       \E j \in DOMAIN templatesCollection :
         templatesCollection[j] = SeedTemplateCategories[i]

IsEmbeddingOf(embedding, text) ==
  /\ embedding.dim = 1536
  /\ \/ embedding.source = "provider"
     \/ embedding = generateFallbackEmbedding(text)

\* C28: generate never rejects, and the list it returns holds one embedding
\* of dimension 1536 per text, in the order of the texts; when
\* generateEmbeddings rejects for a text, the fallback embedding of that text
\* is pushed and the loop goes on with the next text.
C28_GenerateNeverRejects ==
  /\ [](generateCall.result.kind # "rejected")
  /\ [](generateCall.pc = "returned" =>
          /\ generateCall.result.kind = "resolved"
          /\ Len(generateCall.result.value) = Len(generateCall.texts)
          /\ \A i \in DOMAIN generateCall.texts :
               IsEmbeddingOf(generateCall.result.value[i], generateCall.texts[i]))
  /\ [][(generateCall.pc = "awaiting" /\ generateCall'.pc # "awaiting"
           /\ embedCall["c1"].result.kind = "rejected") =>
          /\ generateCall'.pc = "loop"
          /\ generateCall'.embeddings =
               Append(generateCall.embeddings,
                      generateFallbackEmbedding(
                        generateCall.texts[Len(generateCall.embeddings) + 1]))]_vars

\* C28 witness: generate was called with two texts; generateEmbeddings
\* rejected for the first, whose slot holds its fallback embedding, and the
\* provider's embedding of the second follows it
C28_Witness ==
  /\ generateCall.pc = "returned"
  /\ Len(generateCall.texts) = 2
  /\ generateCall.errors = 1
  /\ generateCall.result.value[1] = generateFallbackEmbedding(generateCall.texts[1])
  /\ generateCall.result.value[2].source = "provider"

(***************************************************************************)
(* Properties of the route POST /api/send-email.                           *)
(***************************************************************************)
\* a request arrives in this step
MailRequested ==
  mail.pc = "idle" /\ mail'.pc # "idle"

\* C30: a request with from, to and subject present that arrives while the
\* email service is not initialized (the verification of the transporter
\* pending or failed, or no transporter) is answered 200 with success true
\* and a 'fallback_' message id, without a call of the transporter, whether
\* or not the request has a body field.
C30_FallbackSend ==
  [][(MailRequested /\ mailValidated(mail'.body) /\ (~initialized \/ transporter = "null")) =>
       /\ mail'.pc = "responded"
       /\ mail'.response = mailSent("fallback_")
       /\ sendMailCalls' = sendMailCalls]_vars

\* the part of C30 that holds: requests that do carry a body field
FallbackSendWithBody ==
  [][(MailRequested /\ mailValidated(mail'.body) /\ "body" \in DOMAIN mail'.body
        /\ (~initialized \/ transporter = "null")) =>
       /\ mail'.pc = "responded"
       /\ mail'.response = mailSent("fallback_")
       /\ sendMailCalls' = sendMailCalls]_vars

(***************************************************************************)
(* Properties of the rate-limit delay under concurrent callers.            *)
(***************************************************************************)
\* the provider call of caller c settles in this step
Settles(c) ==
  embedCall[c].pc = "calling" /\ embedCall'[c].pc # "calling"

====
